---- MODULE Spec2Model ----
(***************************************************************************)
(* glsl-react: the uniform diff engine (utils/uniforms.ts), the texture    *)
(* resource manager (hooks/useTextures.ts, utils/textures.ts) and the      *)
(* frame scheduler of the ShaderCanvas component, as state machines.       *)
(*                                                                         *)
(* The specifications share the definitions and the variables below; each  *)
(* starts with the variables it does not use at rest:                      *)
(*   SpecDiff       getChangedUniforms / cloneUniforms on snapshots drawn  *)
(*                  from a bounded universe;                               *)
(*   SpecClone      cloneUniforms on objects held by reference;            *)
(*   SpecTex        the useTextures hook driven by renders, source loads   *)
(*                  and unmount;                                           *)
(*   SpecSwap       the hook with sources of one URL or of none;           *)
(*   SpecCreate     createTexture with every combination of options;       *)
(*   SpecTelemetry  the frame-time history of useShaderTelemetry;          *)
(*   Spec           the ShaderCanvas component: renders, program commit,   *)
(*                  animation ticks;                                       *)
(*   SpecResize     the component resized and re-rendered with other       *)
(*                  pixel ratios;                                          *)
(*   SpecLoop       the life of the frame loop;                            *)
(*   SpecTime       the component with a clock;                            *)
(*   SpecSampler    two texture uniforms on two units;                     *)
(*   SpecContext    the component and the texture state of its context.    *)
(***************************************************************************)
EXTENDS Integers, Sequences, FiniteSets, TLC

(***************************************************************************)
(* Bounds of the model.                                                    *)
(***************************************************************************)
\* longest number array / typed array of a numeric uniform (SpecDiff)
MaxLen == 2
\* largest finite element of a numeric uniform (SpecDiff)
MaxElem == 1

(***************************************************************************)
(* JavaScript values.                                                      *)
(***************************************************************************)
\* the number NaN, the one number that is not === to itself
NaN == -1

\* a === b on two numbers
JsStrictEq(x, y) == x # NaN /\ y # NaN /\ x = y

\* TextureWrap / TextureFilter enum members; 0 stands for an unset field
REPEAT == 10497
CLAMP_TO_EDGE == 33071
MIRRORED_REPEAT == 33648
NEAREST == 9728
LINEAR == 9729
NEAREST_MIPMAP_NEAREST == 9984
LINEAR_MIPMAP_NEAREST == 9985
NEAREST_MIPMAP_LINEAR == 9986
LINEAR_MIPMAP_LINEAR == 9987
Unset == 0

\* TextureOptions: `present` is FALSE when the uniform has no options object
\* at all; flipY is "unset", "true" or "false".
NoOptions ==
  [present |-> FALSE, wrapS |-> Unset, wrapT |-> Unset, minFilter |-> Unset,
   magFilter |-> Unset, flipY |-> "unset"]

EmptyOptions == [NoOptions EXCEPT !.present = TRUE]

\* a source handle that stands for "no source" in numeric uniforms
NoSource == 0

\* NumericUniform {type, value}: rep tells how value is held ("num" a
\* number, "arr" a number[], "f32" a Float32Array), elems its elements.
NumericUniform(t, r, es) ==
  [type |-> t, rep |-> r, elems |-> es, source |-> NoSource, options |-> NoOptions]

\* TextureUniform {type: 'texture', value, options}
TextureUniform(s, o) ==
  [type |-> "texture", rep |-> "tex", elems |-> <<>>, source |-> s, options |-> o]

(***************************************************************************)
(* Uniforms: a JavaScript object, modelled as the sequence of its entries  *)
(* in insertion order (the order of Object.keys / for-in / Object.entries).*)
(***************************************************************************)
Keys(u) == {u[i].name : i \in 1..Len(u)}

Has(u, n) == \E i \in 1..Len(u) : u[i].name = n

Get(u, n) == u[CHOOSE i \in 1..Len(u) : u[i].name = n].u

Entry(n, v) == [name |-> n, u |-> v]

(***************************************************************************)
(* utils/uniforms.ts                                                       *)
(***************************************************************************)
\* the five option fields compared one by one
OptionFieldsEqual(aOpts, bOpts) ==
  /\ aOpts.wrapS = bOpts.wrapS
  /\ aOpts.wrapT = bOpts.wrapT
  /\ aOpts.minFilter = bOpts.minFilter
  /\ aOpts.magFilter = bOpts.magFilter
  /\ aOpts.flipY = bOpts.flipY

\* aVal.length === bVal.length && aVal.every((v, i) => v === bVal[i])
ElementsEqual(aVal, bVal) ==
  /\ Len(aVal) = Len(bVal)
  /\ \A i \in 1..Len(aVal) : JsStrictEq(aVal[i], bVal[i])

\* uniformsEqual with the flipY comparison of the options left out
uniformsEqual_NoFlipY(a, b) ==
  IF a.type # b.type THEN FALSE
  ELSE IF a.type = "texture" /\ b.type = "texture" THEN
    IF a.source # b.source THEN FALSE
    ELSE IF ~a.options.present /\ ~b.options.present THEN TRUE
    ELSE IF ~a.options.present \/ ~b.options.present THEN FALSE
    ELSE /\ a.options.wrapS = b.options.wrapS
         /\ a.options.wrapT = b.options.wrapT
         /\ a.options.minFilter = b.options.minFilter
         /\ a.options.magFilter = b.options.magFilter
  ELSE IF a.rep = "num" /\ b.rep = "num" THEN JsStrictEq(a.elems[1], b.elems[1])
  ELSE IF a.rep = "arr" /\ b.rep = "arr" THEN ElementsEqual(a.elems, b.elems)
  ELSE IF a.rep = "f32" /\ b.rep = "f32" THEN ElementsEqual(a.elems, b.elems)
  ELSE FALSE

uniformsEqual(a, b) ==
  IF a.type # b.type THEN FALSE
  ELSE IF a.type = "texture" /\ b.type = "texture" THEN
    IF a.source # b.source THEN FALSE
    ELSE IF ~a.options.present /\ ~b.options.present THEN TRUE
    ELSE IF ~a.options.present \/ ~b.options.present THEN FALSE
    ELSE OptionFieldsEqual(a.options, b.options)
  ELSE IF a.rep = "num" /\ b.rep = "num" THEN JsStrictEq(a.elems[1], b.elems[1])
  ELSE IF a.rep = "arr" /\ b.rep = "arr" THEN ElementsEqual(a.elems, b.elems)
  ELSE IF a.rep = "f32" /\ b.rep = "f32" THEN ElementsEqual(a.elems, b.elems)
  ELSE FALSE

\* previous is [present |-> FALSE, ...] for null
NullUniforms == [present |-> FALSE, snap |-> <<>>]

SomeUniforms(u) == [present |-> TRUE, snap |-> u]

\* getChangedUniforms returning the still empty `changed` set when there is
\* no previous snapshot
getChangedUniforms_EmptyOnNull(current, previous) ==
  IF ~previous.present THEN {}
  ELSE {key \in Keys(current) :
          \/ ~Has(previous.snap, key)
          \/ ~uniformsEqual(Get(current, key), Get(previous.snap, key))}

\* getChangedUniforms that also walks the keys of `previous`
getChangedUniforms_WithRemoved(current, previous) ==
  IF ~previous.present THEN Keys(current)
  ELSE {key \in Keys(current) \cup Keys(previous.snap) :
          \/ ~Has(previous.snap, key)
          \/ ~Has(current, key)
          \/ ~uniformsEqual(Get(current, key), Get(previous.snap, key))}

getChangedUniforms(current, previous) ==
  IF ~previous.present THEN Keys(current)
  ELSE {key \in Keys(current) :
          \/ ~Has(previous.snap, key)
          \/ ~uniformsEqual(Get(current, key), Get(previous.snap, key))}

\* cloneUniformValue that spreads every non-number value into a number[]
cloneUniformValue_SpreadAll(uniform) ==
  IF uniform.type = "texture"
  THEN uniform
  ELSE [type |-> uniform.type,
        rep |-> IF uniform.rep = "num" THEN "num" ELSE "arr",
        elems |-> uniform.elems,
        source |-> NoSource, options |-> NoOptions]

cloneUniformValue(uniform) ==
  IF uniform.type = "texture"
  THEN [type |-> "texture", rep |-> "tex", elems |-> <<>>,
        source |-> uniform.source,
        options |-> IF uniform.options.present
                    THEN [present |-> TRUE,
                          wrapS |-> uniform.options.wrapS,
                          wrapT |-> uniform.options.wrapT,
                          minFilter |-> uniform.options.minFilter,
                          magFilter |-> uniform.options.magFilter,
                          flipY |-> uniform.options.flipY]
                    ELSE NoOptions]
  ELSE [type |-> uniform.type,
        rep |-> IF uniform.rep = "num" THEN "num"
                ELSE IF uniform.rep = "f32" THEN "f32" ELSE "arr",
        elems |-> [i \in 1..Len(uniform.elems) |-> uniform.elems[i]],
        source |-> NoSource, options |-> NoOptions]

cloneUniforms(uniforms) ==
  [i \in 1..Len(uniforms) |-> Entry(uniforms[i].name, cloneUniformValue(uniforms[i].u))]

(***************************************************************************)
(* Texture sources: objects with an identity (the handle), a kind, and for *)
(* images and videos a `src` URL.  Two images may share a URL.             *)
(***************************************************************************)
SourceKind(s) ==
  CASE s = 1 -> "image"
    [] s = 2 -> "image"
    [] s = 3 -> "video"
    [] OTHER -> "canvas"

\* gl.texImage2D throws a SecurityError for a source whose pixels are not
\* origin-clean; source 5 is a canvas that a cross-origin image was drawn on
OriginClean(s) == s # 5

\* source.src as it is interpolated into the dependency key
SourceSrc(s) ==
  CASE s = 1 -> "a.png"
    [] s = 2 -> "a.png"
    [] s = 3 -> "v.mp4"
    [] OTHER -> "undefined"

\* isTextureSourceReady: `loaded` is the set of images that are complete
\* and of videos that have current data
\* isTextureSourceReady that takes every source for ready
isTextureSourceReady_Always(source, loaded) == TRUE

isTextureSourceReady(source, loaded) ==
  IF SourceKind(source) = "image" THEN source \in loaded
  ELSE IF SourceKind(source) = "video" THEN source \in loaded
  ELSE TRUE

(***************************************************************************)
(* The calls an operation makes on the GL context and on the console, in   *)
(* order.                                                                  *)
(***************************************************************************)
Call(fn, name, tex, unit, src, val) ==
  [fn |-> fn, name |-> name, tex |-> tex, unit |-> unit, src |-> src, val |-> val]

NoTexture == 0

MipmapFilters ==
  {NEAREST_MIPMAP_NEAREST, LINEAR_MIPMAP_NEAREST, NEAREST_MIPMAP_LINEAR,
   LINEAR_MIPMAP_LINEAR}

\* a boolean handed to gl.pixelStorei
GLboolean(flipY) == IF flipY = "false" THEN 0 ELSE 1

(***************************************************************************)
(* utils/textures.ts                                                       *)
(***************************************************************************)
\* createTexture with the test for mipmaps made on magFilter
createTexture_MipmapOnMag(texture, source, options, unit) ==
  LET wrapS == IF options.wrapS = Unset THEN CLAMP_TO_EDGE ELSE options.wrapS
      wrapT == IF options.wrapT = Unset THEN CLAMP_TO_EDGE ELSE options.wrapT
      minFilter == IF options.minFilter = Unset THEN LINEAR ELSE options.minFilter
      magFilter == IF options.magFilter = Unset THEN LINEAR ELSE options.magFilter
      flipY == IF options.flipY = "unset" THEN "true" ELSE options.flipY
  IN <<Call("createTexture", "", texture, unit, NoSource, 0),
       Call("activeTexture", "", NoTexture, unit, NoSource, 0),
       Call("bindTexture", "", texture, unit, NoSource, 0),
       Call("texParameteri", "TEXTURE_WRAP_S", texture, unit, NoSource, wrapS),
       Call("texParameteri", "TEXTURE_WRAP_T", texture, unit, NoSource, wrapT),
       Call("texParameteri", "TEXTURE_MIN_FILTER", texture, unit, NoSource, minFilter),
       Call("texParameteri", "TEXTURE_MAG_FILTER", texture, unit, NoSource, magFilter),
       Call("pixelStorei", "UNPACK_FLIP_Y_WEBGL", NoTexture, unit, NoSource, GLboolean(flipY)),
       Call("texImage2D", "", texture, unit, source, 0)>>
     \o (IF magFilter \in MipmapFilters
         THEN <<Call("generateMipmap", "", texture, unit, NoSource, 0)>>
         ELSE <<>>)

\* createTexture(gl, source, options = {}, unit) with gl.createTexture()
\* returning `texture`: the calls it makes
createTexture(texture, source, options, unit) ==
  LET wrapS == IF options.wrapS = Unset THEN CLAMP_TO_EDGE ELSE options.wrapS
      wrapT == IF options.wrapT = Unset THEN CLAMP_TO_EDGE ELSE options.wrapT
      minFilter == IF options.minFilter = Unset THEN LINEAR ELSE options.minFilter
      magFilter == IF options.magFilter = Unset THEN LINEAR ELSE options.magFilter
      flipY == IF options.flipY = "unset" THEN "true" ELSE options.flipY
  IN <<Call("createTexture", "", texture, unit, NoSource, 0),
       Call("activeTexture", "", NoTexture, unit, NoSource, 0),
       Call("bindTexture", "", texture, unit, NoSource, 0),
       Call("texParameteri", "TEXTURE_WRAP_S", texture, unit, NoSource, wrapS),
       Call("texParameteri", "TEXTURE_WRAP_T", texture, unit, NoSource, wrapT),
       Call("texParameteri", "TEXTURE_MIN_FILTER", texture, unit, NoSource, minFilter),
       Call("texParameteri", "TEXTURE_MAG_FILTER", texture, unit, NoSource, magFilter),
       Call("pixelStorei", "UNPACK_FLIP_Y_WEBGL", NoTexture, unit, NoSource, GLboolean(flipY)),
       Call("texImage2D", "", texture, unit, source, 0)>>
     \o (IF minFilter \in MipmapFilters
         THEN <<Call("generateMipmap", "", texture, unit, NoSource, 0)>>
         ELSE <<>>)

\* updateTexture without its activeTexture and bindTexture
updateTexture_NoBind(texture, source, options, unit) ==
  (IF options.wrapS # Unset
   THEN <<Call("texParameteri", "TEXTURE_WRAP_S", texture, unit, NoSource, options.wrapS)>>
   ELSE <<>>)
    \o (IF options.wrapT # Unset
        THEN <<Call("texParameteri", "TEXTURE_WRAP_T", texture, unit, NoSource, options.wrapT)>>
        ELSE <<>>)
    \o (IF options.minFilter # Unset
        THEN <<Call("texParameteri", "TEXTURE_MIN_FILTER", texture, unit, NoSource, options.minFilter)>>
        ELSE <<>>)
    \o (IF options.magFilter # Unset
        THEN <<Call("texParameteri", "TEXTURE_MAG_FILTER", texture, unit, NoSource, options.magFilter)>>
        ELSE <<>>)
    \o (IF options.flipY # "unset"
        THEN <<Call("pixelStorei", "UNPACK_FLIP_Y_WEBGL", NoTexture, unit, NoSource, GLboolean(options.flipY))>>
        ELSE <<>>)
    \o <<Call("texImage2D", "", texture, unit, source, 0)>>
    \o (IF options.minFilter # Unset /\ options.minFilter \in MipmapFilters
        THEN <<Call("generateMipmap", "", texture, unit, NoSource, 0)>>
        ELSE <<>>)

\* updateTexture(gl, texture, source, options = {}, unit): the calls it makes
updateTexture(texture, source, options, unit) ==
  <<Call("activeTexture", "", NoTexture, unit, NoSource, 0),
    Call("bindTexture", "", texture, unit, NoSource, 0)>>
    \o (IF options.wrapS # Unset
        THEN <<Call("texParameteri", "TEXTURE_WRAP_S", texture, unit, NoSource, options.wrapS)>>
        ELSE <<>>)
    \o (IF options.wrapT # Unset
        THEN <<Call("texParameteri", "TEXTURE_WRAP_T", texture, unit, NoSource, options.wrapT)>>
        ELSE <<>>)
    \o (IF options.minFilter # Unset
        THEN <<Call("texParameteri", "TEXTURE_MIN_FILTER", texture, unit, NoSource, options.minFilter)>>
        ELSE <<>>)
    \o (IF options.magFilter # Unset
        THEN <<Call("texParameteri", "TEXTURE_MAG_FILTER", texture, unit, NoSource, options.magFilter)>>
        ELSE <<>>)
    \o (IF options.flipY # "unset"
        THEN <<Call("pixelStorei", "UNPACK_FLIP_Y_WEBGL", NoTexture, unit, NoSource, GLboolean(options.flipY))>>
        ELSE <<>>)
    \o <<Call("texImage2D", "", texture, unit, source, 0)>>
    \o (IF options.minFilter # Unset /\ options.minFilter \in MipmapFilters
        THEN <<Call("generateMipmap", "", texture, unit, NoSource, 0)>>
        ELSE <<>>)

deleteTexture(texture) == <<Call("deleteTexture", "", texture, 0, NoSource, 0)>>

\* the calls made when texImage2D throws: those up to it, itself included
UpToUpload(calls) ==
  LET at == CHOOSE i \in 1..Len(calls) :
              calls[i].fn = "texImage2D" /\ \A j \in 1..(i - 1) : calls[j].fn # "texImage2D"
  IN SubSeq(calls, 1, at)

(***************************************************************************)
(* The WebGL context: the texture state that the calls above act on.       *)
(***************************************************************************)
\* the texture gl.createTexture() returns: the parameters of a new
\* texture, no image
NewTextureObject ==
  [wrapS |-> REPEAT, wrapT |-> REPEAT, minFilter |-> NEAREST_MIPMAP_LINEAR,
   magFilter |-> LINEAR, image |-> NoSource, flipped |-> 0, mipmapped |-> FALSE]

\* the context of a specification that does not follow it
Unobserved ==
  [observed |-> FALSE, active |-> 0, bound |-> <<>>, unpackFlipY |-> 0, objects |-> <<>>]

\* a new context with `units` texture units: unit 0 is active, no texture
\* is bound, UNPACK_FLIP_Y_WEBGL is false
NewContext(units) ==
  [observed |-> TRUE, active |-> 0, bound |-> [u \in 0..(units - 1) |-> NoTexture],
   unpackFlipY |-> 0, objects |-> <<>>]

\* the texture bound to TEXTURE_2D of the active unit
BoundTexture(ctx) ==
  IF ctx.active \in DOMAIN ctx.bound THEN ctx.bound[ctx.active] ELSE NoTexture

\* the field of a texture object that a parameter name sets
ParameterField(pname) ==
  CASE pname = "TEXTURE_WRAP_S" -> "wrapS"
    [] pname = "TEXTURE_WRAP_T" -> "wrapT"
    [] pname = "TEXTURE_MIN_FILTER" -> "minFilter"
    [] pname = "TEXTURE_MAG_FILTER" -> "magFilter"

\* the context after one call.  texParameteri, texImage2D and
\* generateMipmap act on the texture bound to the active unit, whatever
\* the caller meant; texImage2D throws before it uploads anything from a
\* canvas that is not origin-clean; the mipmap levels made before an
\* upload do not show the new image
GlCall(ctx, call) ==
  LET target == BoundTexture(ctx)
      live == target \in DOMAIN ctx.objects
  IN CASE call.fn = "createTexture" /\ call.tex # NoTexture ->
            [ctx EXCEPT !.objects = (call.tex :> NewTextureObject) @@ @]
       [] call.fn = "activeTexture" -> [ctx EXCEPT !.active = call.unit]
       [] call.fn = "bindTexture" /\ ctx.active \in DOMAIN ctx.bound ->
            [ctx EXCEPT !.bound[ctx.active] = call.tex]
       [] call.fn = "texParameteri" /\ live ->
            [ctx EXCEPT !.objects[target][ParameterField(call.name)] = call.val]
       [] call.fn = "pixelStorei" -> [ctx EXCEPT !.unpackFlipY = call.val]
       [] call.fn = "texImage2D" /\ live /\ OriginClean(call.src) ->
            [ctx EXCEPT !.objects[target] =
               [@ EXCEPT !.image = call.src, !.flipped = ctx.unpackFlipY,
                         !.mipmapped = FALSE]]
       [] call.fn = "generateMipmap" /\ live ->
            [ctx EXCEPT !.objects[target].mipmapped = TRUE]
       [] call.fn = "deleteTexture" ->
            [ctx EXCEPT !.objects = [t \in (DOMAIN @) \ {call.tex} |-> @[t]],
                        !.bound = [u \in DOMAIN @ |->
                                     IF @[u] = call.tex THEN NoTexture ELSE @[u]]]
       [] OTHER -> ctx

RECURSIVE GlFrom(_, _, _)
\* the context after the calls i, i + 1, ... of a log
GlFrom(ctx, calls, i) ==
  IF i > Len(calls) THEN ctx ELSE GlFrom(GlCall(ctx, calls[i]), calls, i + 1)

\* the context after the calls an operation made
GlAfter(ctx, calls) == IF ctx.observed THEN GlFrom(ctx, calls, 1) ELSE ctx

(***************************************************************************)
(* hooks/useTextures.ts                                                    *)
(*                                                                         *)
(* texturesRef is a Map name -> TextureInfo, modelled as the sequence of   *)
(* its entries in insertion order; textureUnitsRef is a Map name -> unit,  *)
(* modelled as the set of its entries.  A hook state `st` is the record    *)
(* [textures, units, log]: the two maps and the calls made so far.         *)
(***************************************************************************)
TextureInfo(name, texture, source, unit) ==
  [name |-> name, texture |-> texture, source |-> source, unit |-> unit]

HookState(textures, units, log) == [textures |-> textures, units |-> units, log |-> log]

\* Map.has / Map.get on texturesRef
HasTexture(textures, name) == \E i \in 1..Len(textures) : textures[i].name = name

GetTexture(textures, name) == textures[CHOOSE i \in 1..Len(textures) : textures[i].name = name]

\* `throw new Error("No available texture units")`
NoUnit == -1

\* getAvailableUnit that hands out the next index modulo maxUnits
getAvailableUnit_Wrap(units, maxUnits) ==
  Cardinality(units) % maxUnits

\* getAvailableUnit that counts the live bindings
getAvailableUnit_Count(units, maxUnits) ==
  IF Cardinality(units) < maxUnits THEN Cardinality(units) ELSE NoUnit

\* getAvailableUnit that scans the units from the top
getAvailableUnit_Largest(units, maxUnits) ==
  LET usedUnits == {e.unit : e \in units}
      free == {i \in 0..(maxUnits - 1) : i \notin usedUnits}
  IN IF free = {} THEN NoUnit
     ELSE CHOOSE i \in free : \A j \in free : i >= j

getAvailableUnit(units, maxUnits) ==
  LET usedUnits == {e.unit : e \in units}
      free == {i \in 0..(maxUnits - 1) : i \notin usedUnits}
  IN IF free = {} THEN NoUnit
     ELSE CHOOSE i \in free : \A j \in free : i <= j

\* the object gl.createTexture() returns: one no binding holds
NewTexture(textures) ==
  LET held == {textures[i].texture : i \in 1..Len(textures)}
  IN CHOOSE t \in 1..(Len(textures) + 1) : t \notin held

\* JSON.stringify(options): the fields that are set, in order; "undefined"
\* when the uniform has no options
JSONstringify(options) ==
  IF ~options.present THEN <<<<"undefined", 0>>>>
  ELSE (IF options.wrapS # Unset THEN <<<<"wrapS", options.wrapS>>>> ELSE <<>>)
    \o (IF options.wrapT # Unset THEN <<<<"wrapT", options.wrapT>>>> ELSE <<>>)
    \o (IF options.minFilter # Unset THEN <<<<"minFilter", options.minFilter>>>> ELSE <<>>)
    \o (IF options.magFilter # Unset THEN <<<<"magFilter", options.magFilter>>>> ELSE <<>>)
    \o (IF options.flipY # "unset" THEN <<<<"flipY", GLboolean(options.flipY)>>>> ELSE <<>>)

\* the uniform names of the model in localeCompare order
SortedNames == <<"u_a", "u_b", "u_t1", "u_t2", "u_t3">>

\* textureUniformsKey: name, source.src and the options of every texture
\* uniform, sorted by name
textureUniformsKey(uniforms) ==
  LET names == SelectSeq(SortedNames,
                 LAMBDA n : Has(uniforms, n) /\ Get(uniforms, n).type = "texture")
  IN [i \in 1..Len(names) |->
        <<names[i], SourceSrc(Get(uniforms, names[i]).source),
          JSONstringify(Get(uniforms, names[i]).options)>>]

\* the textureUniforms memo: the texture uniforms in insertion order, or
\* null when there is none
NullTextureUniforms == [present |-> FALSE, map |-> <<>>]

textureUniformsMemo(uniforms) ==
  LET textures == SelectSeq(uniforms, LAMBDA e : e.u.type = "texture")
  IN IF Len(textures) > 0 THEN [present |-> TRUE, map |-> textures]
     ELSE NullTextureUniforms

\* the removal loop without `textureUnitsRef.current.delete(name)`
RemoveAbsent_KeepUnit(st, textureUniforms) ==
  LET gone == SelectSeq(st.textures, LAMBDA info : ~Has(textureUniforms, info.name))
  IN HookState(
       SelectSeq(st.textures, LAMBDA info : Has(textureUniforms, info.name)),
       st.units,
       st.log \o [i \in 1..Len(gone) |-> deleteTexture(gone[i].texture)[1]])

\* "Remove textures that are no longer in uniforms"
RemoveAbsent(st, textureUniforms) ==
  LET gone == SelectSeq(st.textures, LAMBDA info : ~Has(textureUniforms, info.name))
      goneNames == {gone[i].name : i \in 1..Len(gone)}
  IN HookState(
       SelectSeq(st.textures, LAMBDA info : Has(textureUniforms, info.name)),
       {e \in st.units : e.name \notin goneNames},
       st.log \o [i \in 1..Len(gone) |-> deleteTexture(gone[i].texture)[1]])

\* the update branch replacing the texture of the binding by a new one
UpdateExisting_Recreate(st, name, uniform) ==
  LET existingInfo == GetTexture(st.textures, name)
      texture == NewTexture(st.textures)
  IN HookState(
       [i \in 1..Len(st.textures) |->
          IF st.textures[i].name = name
          THEN TextureInfo(name, texture, uniform.source, existingInfo.unit)
          ELSE st.textures[i]],
       st.units,
       st.log \o createTexture(texture, uniform.source, uniform.options,
                               existingInfo.unit))

\* "Update existing texture if source changed": the binding keeps its
\* texture and its unit and gets the source; an upload that throws leaves
\* the binding as it was and is logged by the catch
UpdateExisting(st, name, uniform) ==
  LET existingInfo == GetTexture(st.textures, name)
  IN IF ~OriginClean(uniform.source)
     THEN [st EXCEPT !.log = @ \o UpToUpload(updateTexture(existingInfo.texture,
                                              uniform.source, uniform.options,
                                              existingInfo.unit))
                              \o <<Call("console.error", name, existingInfo.texture,
                                        existingInfo.unit, uniform.source, 0)>>]
     ELSE HookState(
            [i \in 1..Len(st.textures) |->
               IF st.textures[i].name = name
               THEN [st.textures[i] EXCEPT !.source = uniform.source]
               ELSE st.textures[i]],
            st.units,
            st.log \o updateTexture(existingInfo.texture, uniform.source,
                                    uniform.options, existingInfo.unit))

\* one iteration of "Create or update textures"; createFails says that
\* gl.createTexture() returns null
CreateOrUpdate(st, name, uniform, loaded, maxUnits, createFails) ==
  IF ~isTextureSourceReady(uniform.source, loaded)
  THEN [st EXCEPT !.log = @ \o <<Call("console.warn", name, NoTexture, 0, uniform.source, 0)>>]
  ELSE IF HasTexture(st.textures, name)
  THEN UpdateExisting(st, name, uniform)
  ELSE LET unit == getAvailableUnit(st.units, maxUnits)
           texture == NewTexture(st.textures)
       IN IF unit = NoUnit
          THEN [st EXCEPT !.log = @ \o <<Call("console.error", name, NoTexture, 0, NoSource, maxUnits)>>]
          ELSE IF createFails
          THEN [st EXCEPT !.log = @ \o <<Call("createTexture", "", NoTexture, unit, NoSource, 0),
                                         Call("console.error", name, NoTexture, unit, NoSource, 0)>>]
          ELSE IF ~OriginClean(uniform.source)
          THEN [st EXCEPT !.log = @ \o UpToUpload(createTexture(texture, uniform.source,
                                                   uniform.options, unit))
                                   \o <<Call("console.error", name, texture, unit,
                                             uniform.source, 0)>>]
          ELSE HookState(
                 Append(st.textures, TextureInfo(name, texture, uniform.source, unit)),
                 {e \in st.units : e.name # name} \cup {[name |-> name, unit |-> unit]},
                 st.log \o createTexture(texture, uniform.source, uniform.options, unit))

RECURSIVE CreateOrUpdateFrom(_, _, _, _, _, _)
CreateOrUpdateFrom(i, st, textureUniforms, loaded, maxUnits, createFails) ==
  IF i > Len(textureUniforms) THEN st
  ELSE CreateOrUpdateFrom(i + 1,
         CreateOrUpdate(st, textureUniforms[i].name, textureUniforms[i].u,
                        loaded, maxUnits, createFails),
         textureUniforms, loaded, maxUnits, createFails)

\* the body of the reconcile effect, after its `if (!gl || !textureUniforms)`
Reconcile(st, textureUniforms, loaded, maxUnits, createFails) ==
  CreateOrUpdateFrom(1, RemoveAbsent(st, textureUniforms), textureUniforms,
                     loaded, maxUnits, createFails)

\* the cleanup without `textureUnitsRef.current.clear()`
Teardown_KeepUnits(gl, st) ==
  IF ~gl THEN st
  ELSE HookState(<<>>, st.units,
         st.log \o [i \in 1..Len(st.textures) |-> deleteTexture(st.textures[i].texture)[1]])

\* the cleanup of the second effect, closed over `gl`
Teardown(gl, st) ==
  IF ~gl THEN st
  ELSE HookState(<<>>, {},
         st.log \o [i \in 1..Len(st.textures) |-> deleteTexture(st.textures[i].texture)[1]])

\* a render of the hook after the first: the two memos, then the cleanup
\* and the effect whose dependencies changed.  Returns the new key, memo
\* and hook state.
UseTexturesRender(oldGl, gl, oldKey, oldMemo, uniforms, st, loaded, maxUnits, createFails) ==
  LET key == textureUniformsKey(uniforms)
      memo == IF key # oldKey THEN textureUniformsMemo(uniforms) ELSE oldMemo
      memoChanged == key # oldKey /\ (oldMemo.present \/ memo.present)
      cleaned == IF gl # oldGl THEN Teardown(oldGl, st) ELSE st
      after == IF (gl # oldGl \/ memoChanged) /\ gl /\ memo.present
               THEN Reconcile(cleaned, memo.map, loaded, maxUnits, createFails)
               ELSE cleaned
  IN [key |-> key, memo |-> memo, st |-> after]

\* the first render of the hook: both memos are computed and both effects run
UseTexturesMount(gl, uniforms, loaded, maxUnits, createFails) ==
  LET key == textureUniformsKey(uniforms)
      memo == textureUniformsMemo(uniforms)
      st == HookState(<<>>, {}, <<>>)
  IN [key |-> key, memo |-> memo,
      st |-> IF gl /\ memo.present
             THEN Reconcile(st, memo.map, loaded, maxUnits, createFails)
             ELSE st]

(***************************************************************************)
(* components/ShaderCanvas.tsx, hooks/useWebGL.ts, utils/uniforms.ts       *)
(* (setUniform) and utils/shaders.ts (getUniformLocations).                *)
(*                                                                         *)
(* A uniform location is modelled by the name it was looked up with.  The  *)
(* GPU-side uniforms of the program are a function from names to the       *)
(* value last set, a sequence of numbers; a linked program starts with     *)
(* every uniform at zero.                                                  *)
(***************************************************************************)
\* the uniforms the linked program declares: gl.getUniformLocation returns
\* null for every other name
ShaderUniforms == {"u_a", "u_t1", "u_t2", "u_resolution", "u_time"}

\* getUniformLocations(gl, program, uniformNames): the names with a location
getUniformLocations(uniformNames) == {n \in uniformNames : n \in ShaderUniforms}

\* programInfo: null, or {gl, program, uniformLocations}
NullProgramInfo == [present |-> FALSE, uniformLocations |-> {}]

ProgramInfo(uniformLocations) == [present |-> TRUE, uniformLocations |-> uniformLocations]

\* v[0], ..., v[n-1] of a value; reading past the end gives undefined,
\* which the GL call turns into NaN
FirstElems(elems, n) == [i \in 1..n |-> IF i <= Len(elems) THEN elems[i] ELSE NaN]

\* setUniform(gl, location, uniform, textureUnit): whether it throws, the GL
\* call it makes ("" for none) and the value the location gets
setUniform(uniform, textureUnit) ==
  LET Sets(fn, value) == [threw |-> FALSE, fn |-> fn, value |-> value]
      type == uniform.type
  IN IF type = "texture"
     THEN IF textureUnit = NoUnit
          THEN [threw |-> TRUE, fn |-> "", value |-> <<>>]
          ELSE Sets("uniform1i", <<textureUnit>>)
     ELSE CASE type = "float" -> Sets("uniform1f", FirstElems(uniform.elems, 1))
            [] type = "vec2" -> Sets("uniform2f", FirstElems(uniform.elems, 2))
            [] type = "vec3" -> Sets("uniform3f", FirstElems(uniform.elems, 3))
            [] type = "vec4" -> Sets("uniform4f", FirstElems(uniform.elems, 4))
            [] type = "int" -> Sets("uniform1i", FirstElems(uniform.elems, 1))
            [] type = "ivec2" -> Sets("uniform2i", FirstElems(uniform.elems, 2))
            [] type = "ivec3" -> Sets("uniform3i", FirstElems(uniform.elems, 3))
            [] type = "ivec4" -> Sets("uniform4i", FirstElems(uniform.elems, 4))
            [] type = "mat3" -> Sets("uniformMatrix3fv", uniform.elems)
            [] type = "mat4" -> Sets("uniformMatrix4fv", uniform.elems)
            [] OTHER -> [threw |-> FALSE, fn |-> "console.warn", value |-> <<>>]

RECURSIVE Concat(_)
Concat(ss) == IF ss = <<>> THEN <<>> ELSE Head(ss) \o Concat(Tail(ss))

\* `source instanceof HTMLVideoElement || source instanceof HTMLCanvasElement`
IsDynamicSource_VideoOnly(source) == SourceKind(source) = "video"

IsDynamicSource(source) == SourceKind(source) \in {"video", "canvas"}

\* renderLoop, "Bind all textures to their units and update dynamic ones":
\* the calls made for the bindings, in the order of the Map
RefreshDynamicTextures(textures, activeUniforms) ==
  Concat([i \in 1..Len(textures) |->
    LET name == textures[i].name
    IN IF Has(activeUniforms, name)
          /\ Get(activeUniforms, name).type = "texture"
          /\ IsDynamicSource(Get(activeUniforms, name).source)
       THEN IF OriginClean(Get(activeUniforms, name).source)
            THEN updateTexture(textures[i].texture, Get(activeUniforms, name).source,
                               Get(activeUniforms, name).options, textures[i].unit)
            ELSE UpToUpload(updateTexture(textures[i].texture,
                                          Get(activeUniforms, name).source,
                                          Get(activeUniforms, name).options,
                                          textures[i].unit))
       ELSE <<>>])

\* the position of the first binding whose refresh throws, 0 when none does
FirstThrowingRefresh(textures, activeUniforms) ==
  LET throws == {i \in 1..Len(textures) :
                   /\ Has(activeUniforms, textures[i].name)
                   /\ Get(activeUniforms, textures[i].name).type = "texture"
                   /\ IsDynamicSource(Get(activeUniforms, textures[i].name).source)
                   /\ ~OriginClean(Get(activeUniforms, textures[i].name).source)}
  IN IF throws = {} THEN 0 ELSE CHOOSE i \in throws : \A j \in throws : i <= j

\* textureUnitsRef.current.get(key)
GetUnit(units, key) ==
  IF \E e \in units : e.name = key
  THEN (CHOOSE e \in units : e.name = key).unit
  ELSE NoUnit

\* renderLoop, `for (const key of changedUniforms)`: the keys that have a
\* location, in the order of the Set, which is the order of the keys of the
\* snapshot the Set was computed from
KeysToApply(activeUniforms, locations, changedUniforms) ==
  SelectSeq(activeUniforms, LAMBDA e : e.name \in changedUniforms /\ e.name \in locations)

\* the calls that loop makes: the uniform call, or the console.error of the
\* catch when setUniform throws
ApplyChangedCalls(activeUniforms, locations, changedUniforms, units) ==
  LET keys == KeysToApply(activeUniforms, locations, changedUniforms)
  IN [i \in 1..Len(keys) |->
       LET r == setUniform(keys[i].u, GetUnit(units, keys[i].name))
       IN Call(IF r.threw THEN "console.error" ELSE r.fn,
               keys[i].name, NoTexture, 0, NoSource, 0)]

\* the loop with the try around the whole of it: the first setUniform that
\* throws ends it
ApplyChangedValues_AbortOnThrow(gpu, activeUniforms, locations, changedUniforms, units) ==
  LET keys == KeysToApply(activeUniforms, locations, changedUniforms)
      Result(i) == setUniform(keys[i].u, GetUnit(units, keys[i].name))
      throwing == {i \in 1..Len(keys) : Result(i).threw}
      last == IF throwing = {} THEN Len(keys)
              ELSE (CHOOSE i \in throwing : \A j \in throwing : i <= j) - 1
  IN [n \in DOMAIN gpu |->
       IF \E i \in 1..last : keys[i].name = n /\ Result(i).fn # "console.warn"
       THEN Result(CHOOSE i \in 1..last : keys[i].name = n).value
       ELSE gpu[n]]

\* and the GPU-side uniforms after it
ApplyChangedValues(gpu, activeUniforms, locations, changedUniforms, units) ==
  [n \in DOMAIN gpu |->
     IF n \in changedUniforms /\ n \in locations /\ Has(activeUniforms, n)
     THEN LET r == setUniform(Get(activeUniforms, n), GetUnit(units, n))
          IN IF r.threw \/ r.fn = "console.warn" THEN gpu[n] ELSE r.value
     ELSE gpu[n]]

\* time * 0.001 for a time in milliseconds that is a whole number of
\* seconds, as every time of the model is
Seconds(time) == time \div 1000

\* renderLoop(time), the built-in uniforms: set when the program declares
\* them
BuiltInCalls(time) ==
  (IF "u_resolution" \in ShaderUniforms
   THEN <<Call("uniform2f", "u_resolution", NoTexture, 0, NoSource, 0)>> ELSE <<>>)
  \o (IF "u_time" \in ShaderUniforms
      THEN <<Call("uniform1f", "u_time", NoTexture, 0, NoSource, Seconds(time))>>
      ELSE <<>>)
  \o (IF "u_mouse" \in ShaderUniforms
      THEN <<Call("uniform2f", "u_mouse", NoTexture, 0, NoSource, 0)>> ELSE <<>>)

\* renderLoop with a program when an upload of the refresh throws: the calls
\* up to the one that throws; the exception leaves renderLoop
RenderLoopCallsUntilThrow(textures, activeUniforms, time) ==
  <<Call("clearColor", "", NoTexture, 0, NoSource, 0),
    Call("clear", "", NoTexture, 0, NoSource, 0)>>
    \o BuiltInCalls(time)
    \o RefreshDynamicTextures(SubSeq(textures, 1, FirstThrowingRefresh(textures, activeUniforms)),
                              activeUniforms)

\* renderLoop with a program: every call of one frame, the last one being
\* onFrameRenderRef.current(frameTime)
RenderLoopCalls(textures, units, activeUniforms, locations, changedUniforms, time, frameTime) ==
  <<Call("clearColor", "", NoTexture, 0, NoSource, 0),
    Call("clear", "", NoTexture, 0, NoSource, 0)>>
    \o BuiltInCalls(time)
    \o RefreshDynamicTextures(textures, activeUniforms)
    \o ApplyChangedCalls(activeUniforms, locations, changedUniforms, units)
    \o <<Call("drawArrays", "", NoTexture, 0, NoSource, 0),
         Call("onFrameRender", "", NoTexture, 0, NoSource, frameTime)>>

\* the calls of a frame that address the program: the built-in uniforms are
\* looked up in it, the changed uniforms are set through its locations
IsBuiltInCall(call) ==
  call.name \in {"u_resolution", "u_time", "u_mouse"}

\* renderLoop(time) as the closure stored in renderFnRef and run by the
\* animation frame.  `canvas` is canvasRef.current being set, `info` the
\* programInfo of the closure, `inUse` whether the program of `info` is the
\* one the context uses (it is not between a change of the shaders and the
\* render of the new programInfo: the lookups of the built-in uniforms in
\* the deleted program give null).  Returns the calls made, the GPU-side
\* uniforms if the uniform calls reach the program in use, the changed set
\* and whether an exception left the function.  `time` is the argument,
\* `clock` what performance.now() returns during the call and
\* `lastFrameTime` lastFrameTimeRef.current; the result has the new
\* lastFrameTimeRef.current.
renderLoop(canvas, info, inUse, textures, units, activeUniforms, changedUniforms, gpu, time, clock, lastFrameTime) ==
  IF ~canvas \/ ~info.present
  THEN [calls |-> <<>>, gpu |-> gpu, changed |-> changedUniforms, threw |-> FALSE,
        lastFrameTime |-> lastFrameTime]
  ELSE IF FirstThrowingRefresh(textures, activeUniforms) # 0
  THEN [calls |-> IF inUse
                  THEN RenderLoopCallsUntilThrow(textures, activeUniforms, time)
                  ELSE SelectSeq(RenderLoopCallsUntilThrow(textures, activeUniforms, time),
                                 LAMBDA c : ~IsBuiltInCall(c)),
        gpu |-> gpu, changed |-> changedUniforms, threw |-> TRUE,
        lastFrameTime |-> lastFrameTime]
  ELSE LET calls == RenderLoopCalls(textures, units, activeUniforms,
                                    info.uniformLocations, changedUniforms,
                                    time, clock - lastFrameTime)
       IN [calls |-> IF inUse THEN calls
                     ELSE SelectSeq(calls, LAMBDA c : ~IsBuiltInCall(c)),
           gpu |-> ApplyChangedValues(gpu, activeUniforms, info.uniformLocations,
                                      changedUniforms, units),
           changed |-> {},
           threw |-> FALSE,
           lastFrameTime |-> clock]

\* the value of the time uniform after the calls of a frame: the one of the
\* gl.uniform1f that set it, if there is one
TimeUniformAfter(calls, old) ==
  IF \E i \in 1..Len(calls) : calls[i].name = "u_time"
  THEN calls[CHOOSE i \in 1..Len(calls) : calls[i].name = "u_time"].val
  ELSE old

\* the argument of onFrameRenderRef.current in the calls of a frame, if it
\* was called
FrameTimeAfter(calls, old) ==
  IF \E i \in 1..Len(calls) : calls[i].fn = "onFrameRender"
  THEN calls[CHOOSE i \in 1..Len(calls) : calls[i].fn = "onFrameRender"].val
  ELSE old

\* Math.floor(client * pixelRatio) for a size <<width, height>> and a pixel
\* ratio given as the fraction <<numerator, denominator>>
DisplaySize(client, pixelRatio) ==
  <<(client[1] * pixelRatio[1]) \div pixelRatio[2],
    (client[2] * pixelRatio[1]) \div pixelRatio[2]>>

\* handleResize without its `if (canvas.width !== displayWidth || ...)`
handleResize_Always(canvas, info, client, pixelRatio, size) ==
  IF ~canvas \/ ~info.present
  THEN [resized |-> FALSE, size |-> size]
  ELSE [resized |-> TRUE, size |-> DisplaySize(client, pixelRatio)]

\* handleResize(), up to the forced frame: whether the backing store was
\* resized (and gl.viewport called), and its size afterwards
handleResize(canvas, info, client, pixelRatio, size) ==
  IF ~canvas \/ ~info.present
  THEN [resized |-> FALSE, size |-> size]
  ELSE IF size # DisplaySize(client, pixelRatio)
  THEN [resized |-> TRUE, size |-> DisplaySize(client, pixelRatio)]
  ELSE [resized |-> FALSE, size |-> size]

\* gl.viewport(0, 0, displayWidth, displayHeight)
ViewportCall == Call("viewport", "", NoTexture, 0, NoSource, 0)

(***************************************************************************)
(* State.                                                                  *)
(***************************************************************************)
VARIABLES
  \* SpecDiff: the arguments and the result of the diff engine's functions
  argCurrent,     \* the `current` argument
  argPrevious,    \* the `previous` argument (NullUniforms for null)
  retChanged,     \* the Set returned by getChangedUniforms
  diffPc,         \* "args" | "cloned" | "diffed" | "cloneDiffed"
  \* the useTextures hook (SpecTex, Spec)
  mounted,            \* the component that calls the hook is mounted
  uniforms,           \* the `uniforms` prop of the last render
  gl,                 \* the `gl` argument of the last render is not null
  textureUniformsKey_, \* the memoized dependency key
  textureUniforms,    \* the memoized Map of texture uniforms (or null)
  texturesRef,        \* texturesRef.current
  textureUnitsRef,    \* textureUnitsRef.current
  \* the environment
  loaded,             \* the images and videos that have data
  maxUnits,           \* gl.getParameter(gl.MAX_COMBINED_TEXTURE_IMAGE_UNITS)
  \* what the last operation did
  lastOp,             \* its name
  glCalls,            \* the GL and console calls it made, in order
  \* the ShaderCanvas component (Spec)
  uniformsRef,          \* uniformsRef.current
  previousUniformsRef,  \* previousUniformsRef.current (NullUniforms for null)
  changedUniformsRef,   \* changedUniformsRef.current
  programInfo,          \* the programInfo state of useWebGL as last rendered
  pendingProgramInfo,   \* the setProgramInfo(...) not rendered yet
  gpuUniforms,          \* the GPU-side value of the program's uniforms
  \* the frame loop and the canvas of the ShaderCanvas component
  rafScheduled,         \* the animation frames requested, not yet run or cancelled
  renderFnRef,          \* renderFnRef.current is set
  canvasSize,           \* <<canvas.width, canvas.height>>
  viewport,             \* the viewport of the context, <<width, height>>
  clientSize,           \* <<canvas.clientWidth, canvas.clientHeight>>
  pixelRatio,           \* the pixelRatio prop, <<numerator, denominator>>
  fragmentShader,       \* the fragmentShader prop
  defaultTextureOptions, \* options.defaultTextureOptions of the options prop
  \* SpecClone: the objects the snapshots are made of
  heap,                 \* the arrays and options objects, by reference
  callerUniforms,       \* the caller's snapshot, holding references
  retainedUniforms,     \* the snapshot cloneUniforms returned (or null)
  mutatedNames,         \* names whose array or options the caller wrote to
  \* the useShaderTelemetry hook (SpecTelemetry)
  graphSamples,         \* props?.graphSamples (UndefinedSamples for undefined)
  graphSamplesRef,      \* graphSamplesRef.current
  frameTimeHistory,     \* frameTimeHistory.current
  frameCountRef,        \* frameCountRef.current
  frameTimesReceived,   \* every argument of onFrameRender so far, in order
  \* the clock of the page and what the frame loop derives from it
  now,                  \* performance.now(), in milliseconds
  timeUniform,          \* the GPU-side value of the time built-in uniform
  lastFrameTimeRef,     \* lastFrameTimeRef.current
  frameTimeEmitted,     \* the last argument of onFrameRenderRef.current
  loopStartedAt,        \* performance.now() when the frame loop last started
  \* the WebGL context
  glContext             \* its texture state, in the specifications that follow it

diffVars == <<argCurrent, argPrevious, retChanged, diffPc>>

texVars ==
  <<mounted, uniforms, gl, textureUniformsKey_, textureUniforms, texturesRef,
    textureUnitsRef, loaded, maxUnits, lastOp, glCalls>>

canvasVars ==
  <<uniformsRef, previousUniformsRef, changedUniformsRef, programInfo,
    pendingProgramInfo, gpuUniforms>>

loopVars ==
  <<rafScheduled, renderFnRef, canvasSize, viewport, clientSize, pixelRatio,
    fragmentShader, defaultTextureOptions>>

heapVars == <<heap, callerUniforms, retainedUniforms, mutatedNames>>

telemetryVars ==
  <<graphSamples, graphSamplesRef, frameTimeHistory, frameCountRef,
    frameTimesReceived>>

contextVars == <<glContext>>

clockVars == <<now, timeUniform, lastFrameTimeRef, frameTimeEmitted, loopStartedAt>>

vars ==
  <<diffVars, texVars, canvasVars, loopVars, heapVars, telemetryVars, clockVars,
    contextVars>>

\* the variables of a specification that does not use them
DiffIdle ==
  /\ argCurrent = <<>>
  /\ argPrevious = NullUniforms
  /\ retChanged = {}
  /\ diffPc = "idle"

TexIdle ==
  /\ mounted = FALSE
  /\ uniforms = <<>>
  /\ gl = FALSE
  /\ textureUniformsKey_ = <<>>
  /\ textureUniforms = NullTextureUniforms
  /\ texturesRef = <<>>
  /\ textureUnitsRef = {}
  /\ loaded = {}
  /\ maxUnits = 0
  /\ lastOp = "init"
  /\ glCalls = <<>>

NoPending == [scheduled |-> FALSE, info |-> NullProgramInfo]

CanvasIdle ==
  /\ uniformsRef = <<>>
  /\ previousUniformsRef = NullUniforms
  /\ changedUniformsRef = {}
  /\ programInfo = NullProgramInfo
  /\ pendingProgramInfo = NoPending
  /\ gpuUniforms = <<>>

\* a new canvas element is 300 by 150, and so is the viewport of its context
DefaultCanvasSize == <<300, 150>>

LoopIdle ==
  /\ rafScheduled = 0
  /\ renderFnRef = FALSE
  /\ canvasSize = DefaultCanvasSize
  /\ viewport = DefaultCanvasSize
  /\ clientSize = DefaultCanvasSize
  /\ pixelRatio = <<1, 1>>
  /\ fragmentShader = ""
  /\ defaultTextureOptions = NoOptions

HeapIdle ==
  /\ heap = <<>>
  /\ callerUniforms = <<>>
  /\ retainedUniforms = NullUniforms
  /\ mutatedNames = {}

\* the context is not followed
ContextIdle == glContext = Unobserved

ClockIdle ==
  /\ now = 0
  /\ timeUniform = 0
  /\ lastFrameTimeRef = 0
  /\ frameTimeEmitted = 0
  /\ loopStartedAt = 0

\* props is undefined, or props.graphSamples is
UndefinedSamples == -1

TelemetryIdle ==
  /\ graphSamples = UndefinedSamples
  /\ graphSamplesRef = 0
  /\ frameTimeHistory = <<>>
  /\ frameCountRef = 0
  /\ frameTimesReceived = <<>>

(***************************************************************************)
(* SpecDiff: the universe of snapshots.                                    *)
(***************************************************************************)
\* numbers a scalar uniform may hold
ScalarNums == (0..MaxElem) \cup {NaN}

\* numbers an element of an array may hold
ArrayNums == {0, MaxElem, NaN}

ElemSeqs(S) == UNION {[1..n -> S] : n \in 1..MaxLen}

DiffSources == {1, 2}

DiffOptions ==
  {NoOptions, EmptyOptions,
   [EmptyOptions EXCEPT !.wrapS = REPEAT],
   [EmptyOptions EXCEPT !.wrapT = REPEAT],
   [EmptyOptions EXCEPT !.minFilter = LINEAR_MIPMAP_LINEAR],
   [EmptyOptions EXCEPT !.magFilter = NEAREST],
   [EmptyOptions EXCEPT !.flipY = "false"]}

DiffValues ==
  {NumericUniform("float", "num", <<x>>) : x \in ScalarNums}
    \cup {NumericUniform("int", "num", <<x>>) : x \in 0..MaxElem}
    \cup {NumericUniform("vec2", "arr", es) : es \in ElemSeqs(ArrayNums)}
    \cup {NumericUniform("vec2", "f32", es) : es \in ElemSeqs({0, MaxElem})}
    \cup {TextureUniform(s, o) : s \in DiffSources, o \in DiffOptions}

\* the second name only takes a few values: it is there to show that the
\* names of a snapshot are diffed independently of each other
DiffValuesB == {NumericUniform("float", "num", <<x>>) : x \in {0, 1}}

\* snapshots in the insertion order u_a, u_b
DiffSnapshotsAB ==
  {<<>>}
    \cup {<<Entry("u_a", a)>> : a \in DiffValues}
    \cup {<<Entry("u_b", b)>> : b \in DiffValuesB}
    \cup {<<Entry("u_a", a), Entry("u_b", b)>> : a \in DiffValues, b \in DiffValuesB}

\* and in the insertion order u_b, u_a
DiffSnapshotsBA ==
  {<<Entry("u_b", b), Entry("u_a", a)>> : a \in DiffValues, b \in DiffValuesB}

DiffInit ==
  /\ TexIdle
  /\ CanvasIdle
  /\ LoopIdle
  /\ HeapIdle
  /\ TelemetryIdle
  /\ ClockIdle
  /\ ContextIdle
  /\ argCurrent \in DiffSnapshotsAB \cup DiffSnapshotsBA
  /\ argPrevious \in {NullUniforms} \cup {SomeUniforms(p) : p \in DiffSnapshotsAB}
  /\ retChanged = {}
  /\ diffPc = "args"

\* previous := cloneUniforms(current)
CallCloneUniforms ==
  /\ diffPc = "args"
  /\ argPrevious' = SomeUniforms(cloneUniforms(argCurrent))
  /\ diffPc' = "cloned"
  /\ UNCHANGED <<argCurrent, retChanged, texVars, canvasVars, loopVars,
                 heapVars, telemetryVars, clockVars, contextVars>>

\* changed := getChangedUniforms(current, previous)
CallGetChangedUniforms ==
  /\ diffPc \in {"args", "cloned"}
  /\ retChanged' = getChangedUniforms(argCurrent, argPrevious)
  /\ diffPc' = IF diffPc = "cloned" THEN "cloneDiffed" ELSE "diffed"
  /\ UNCHANGED <<argCurrent, argPrevious, texVars, canvasVars, loopVars,
                 heapVars, telemetryVars, clockVars, contextVars>>

DiffNext == CallCloneUniforms \/ CallGetChangedUniforms

SpecDiff == DiffInit /\ [][DiffNext]_vars

(***************************************************************************)
(* SpecTex: the useTextures hook on its own, as renderHook drives it.      *)
(***************************************************************************)
\* the unit count the context reports
MaxUnits == 2

TexNames == {"u_t1", "u_t2", "u_t3"}

\* an image, which has to load, and a canvas, which is always ready
TexSources == {1, 4}

TexOptions == {NoOptions}

TexValues == {TextureUniform(s, o) : s \in TexSources, o \in TexOptions}

TexEntries == {Entry(n, v) : n \in TexNames, v \in TexValues}

\* every Uniforms object made of the entries E: the sequences of entries
\* with distinct names
SnapshotsOver(E) ==
  UNION {{u \in [1..k -> E] : \A i, j \in 1..k : i # j => u[i].name # u[j].name} :
         k \in 0..Cardinality({e.name : e \in E})}

TexSnapshots == SnapshotsOver(TexEntries)

\* the Uniforms objects a re-render may bring after u: the same entries in a
\* new object, one entry removed, one value replaced, or one entry added
RemoveAt(u, i) == [j \in 1..(Len(u) - 1) |-> IF j < i THEN u[j] ELSE u[j + 1]]

OneEditFrom(u, E) ==
  {u}
    \cup {RemoveAt(u, i) : i \in 1..Len(u)}
    \cup UNION {{[u EXCEPT ![i] = e] : e \in {x \in E : x.name = u[i].name}} :
                i \in 1..Len(u)}
    \cup {Append(u, e) : e \in {x \in E : x.name \notin Keys(u)}}

TexInit ==
  /\ DiffIdle
  /\ CanvasIdle
  /\ LoopIdle
  /\ HeapIdle
  /\ TelemetryIdle
  /\ ClockIdle
  /\ ContextIdle
  /\ mounted = FALSE
  /\ uniforms = <<>>
  /\ gl = FALSE
  /\ textureUniformsKey_ = <<>>
  /\ textureUniforms = NullTextureUniforms
  /\ texturesRef = <<>>
  /\ textureUnitsRef = {}
  /\ loaded = {}
  /\ maxUnits = MaxUnits
  /\ lastOp = "init"
  /\ glCalls = <<>>

\* renderHook(() => useTextures(g, u))
TexMount(g, u, createFails) ==
  /\ ~mounted
  /\ LET r == UseTexturesMount(g, u, loaded, maxUnits, createFails)
     IN /\ textureUniformsKey_' = r.key
        /\ textureUniforms' = r.memo
        /\ texturesRef' = r.st.textures
        /\ textureUnitsRef' = r.st.units
        /\ glCalls' = r.st.log
  /\ mounted' = TRUE
  /\ uniforms' = u
  /\ gl' = g
  /\ lastOp' = "mount"
  /\ glContext' = GlAfter(glContext, glCalls')
  /\ UNCHANGED <<loaded, maxUnits, diffVars, canvasVars, loopVars,
                 heapVars, telemetryVars, clockVars>>

\* rerender({gl: g, uniforms: u})
TexRender(g, u, createFails) ==
  /\ mounted
  /\ g = gl \/ u = uniforms
  /\ LET r == UseTexturesRender(gl, g, textureUniformsKey_, textureUniforms, u,
                                HookState(texturesRef, textureUnitsRef, <<>>),
                                loaded, maxUnits, createFails)
     IN /\ textureUniformsKey_' = r.key
        /\ textureUniforms' = r.memo
        /\ texturesRef' = r.st.textures
        /\ textureUnitsRef' = r.st.units
        /\ glCalls' = r.st.log
  /\ uniforms' = u
  /\ gl' = g
  /\ lastOp' = "render"
  /\ glContext' = GlAfter(glContext, glCalls')
  /\ UNCHANGED <<mounted, loaded, maxUnits, diffVars, canvasVars, loopVars,
                 heapVars, telemetryVars, clockVars>>

\* unmount(): the cleanup of the second effect runs
TexUnmount ==
  /\ mounted
  /\ LET st == Teardown(gl, HookState(texturesRef, textureUnitsRef, <<>>))
     IN /\ texturesRef' = st.textures
        /\ textureUnitsRef' = st.units
        /\ glCalls' = st.log
  /\ mounted' = FALSE
  /\ uniforms' = <<>>
  /\ gl' = FALSE
  /\ textureUniformsKey_' = <<>>
  /\ textureUniforms' = NullTextureUniforms
  /\ lastOp' = "unmount"
  /\ glContext' = GlAfter(glContext, glCalls')
  /\ UNCHANGED <<loaded, maxUnits, diffVars, canvasVars, loopVars,
                 heapVars, telemetryVars, clockVars>>

\* an image finishes loading, a video gets its first frame
SourceLoaded(s) ==
  /\ SourceKind(s) \in {"image", "video"}
  /\ s \notin loaded
  /\ loaded' = loaded \cup {s}
  /\ lastOp' = "load"
  /\ glCalls' = <<>>
  /\ glContext' = GlAfter(glContext, glCalls')
  /\ UNCHANGED <<mounted, uniforms, gl, textureUniformsKey_, textureUniforms,
                 texturesRef, textureUnitsRef, maxUnits, diffVars, canvasVars, loopVars,
                 heapVars, telemetryVars, clockVars>>

TexNext ==
  \/ \E g \in BOOLEAN, u \in TexSnapshots, f \in BOOLEAN : TexMount(g, u, f)
  \/ \E g \in BOOLEAN, u \in OneEditFrom(uniforms, TexEntries), f \in BOOLEAN :
       TexRender(g, u, f)
  \/ TexUnmount
  \/ \E s \in TexSources : SourceLoaded(s)

SpecTex == TexInit /\ [][TexNext]_vars

(***************************************************************************)
(* Spec: the ShaderCanvas component, mounted, with its program being       *)
(* created, its uniforms prop replaced by the parent and its frames        *)
(* ticking.                                                                *)
(***************************************************************************)
CanvasNames == {"u_a", "u_t1", "u_t2"}

\* a float, a texture that is an image or a video, a texture that is a
\* canvas
CanvasEntries ==
  {Entry("u_a", NumericUniform("float", "num", <<x>>)) : x \in {0, 1}}
    \cup {Entry("u_t1", TextureUniform(s, NoOptions)) : s \in {1, 3}}
    \cup {Entry("u_t2", TextureUniform(4, NoOptions))}

CanvasSnapshots == SnapshotsOver(CanvasEntries)

\* the unit counts a context may report: one short of the texture uniforms,
\* or enough for them
CanvasUnitCounts == {1, 2}

\* the fragment shaders: two that compile and link, one that does not
Compiles(shader) == shader # "bad"

\* the animation frames requested and neither run nor cancelled are
\* counted.  requestAnimationFrame(render) adds one
requestAnimationFrame(pending) == pending + 1

\* cancelAnimationFrame(rafId) of the cleanup: rafId is the last frame the
\* loop requested, which is pending unless it ran and threw
cancelAnimationFrame(pending) == IF pending > 0 THEN pending - 1 ELSE 0

\* the state after the first commit and its effects.  In the order of the
\* effects: useWebGL creates the program, looks up the locations of the
\* keys of uniformsRef.current and calls setProgramInfo, or logs the
\* failure (setProgramInfo(null) leaves the state as it is, so nothing is
\* rendered for it); useTextures has no gl yet; the diff effect diffs
\* against null, clones and stores the prop; the initial resize finds no
\* programInfo; the frame loop starts.
CanvasMountAt(u, shader, client, ratio, defaults, units, t) ==
  /\ DiffIdle
  /\ HeapIdle
  /\ TelemetryIdle
  /\ now = t
  /\ timeUniform = 0
  /\ lastFrameTimeRef = t
  /\ frameTimeEmitted = 0
  /\ loopStartedAt = t
  /\ mounted = TRUE
  /\ uniforms = u
  /\ gl = FALSE
  /\ loaded = {}
  /\ maxUnits = units
  /\ LET r == UseTexturesMount(FALSE, u, {}, units, FALSE)
     IN /\ textureUniformsKey_ = r.key
        /\ textureUniforms = r.memo
        /\ texturesRef = r.st.textures
        /\ textureUnitsRef = r.st.units
        /\ glCalls = r.st.log
                       \o (IF Compiles(shader) THEN <<>>
                           ELSE <<Call("console.error", "WebGL initialization error",
                                       NoTexture, 0, NoSource, 0)>>)
  /\ lastOp = "mount"
  /\ uniformsRef = u
  /\ previousUniformsRef = SomeUniforms(cloneUniforms(u))
  /\ changedUniformsRef = getChangedUniforms(u, NullUniforms)
  /\ programInfo = NullProgramInfo
  /\ pendingProgramInfo =
       IF Compiles(shader)
       THEN [scheduled |-> TRUE, info |-> ProgramInfo(getUniformLocations(Keys(u)))]
       ELSE NoPending
  /\ gpuUniforms = [n \in CanvasNames |-> <<0>>]
  /\ rafScheduled = requestAnimationFrame(0)
  /\ renderFnRef = TRUE
  /\ canvasSize = DefaultCanvasSize
  /\ viewport = DefaultCanvasSize
  /\ clientSize = client
  /\ pixelRatio = ratio
  /\ fragmentShader = shader
  /\ defaultTextureOptions = defaults

\* the component mounts when the page opens
CanvasMount(u, shader, client, ratio, defaults, units) ==
  /\ CanvasMountAt(u, shader, client, ratio, defaults, units, 0)
  /\ ContextIdle

CanvasInit ==
  \E u \in CanvasSnapshots, units \in CanvasUnitCounts :
    CanvasMount(u, "a", <<400, 300>>, <<1, 1>>, NoOptions, units)

\* the parent renders <ShaderCanvas uniforms={u}/> with a new object: the
\* hook reconciles if its key changed, then the diff effect runs
UpdateUniforms(u) ==
  /\ mounted
  /\ LET r == UseTexturesRender(gl, gl, textureUniformsKey_, textureUniforms, u,
                                HookState(texturesRef, textureUnitsRef, <<>>),
                                loaded, maxUnits, FALSE)
     IN /\ textureUniformsKey_' = r.key
        /\ textureUniforms' = r.memo
        /\ texturesRef' = r.st.textures
        /\ textureUnitsRef' = r.st.units
        /\ glCalls' = r.st.log
  /\ uniforms' = u
  /\ changedUniformsRef' = getChangedUniforms(u, previousUniformsRef)
  /\ previousUniformsRef' = SomeUniforms(cloneUniforms(u))
  /\ uniformsRef' = u
  /\ lastOp' = "update"
  /\ glContext' = GlAfter(glContext, glCalls')
  /\ UNCHANGED <<mounted, gl, loaded, maxUnits, programInfo, pendingProgramInfo,
                 gpuUniforms, diffVars, loopVars, heapVars, telemetryVars, clockVars>>

\* the render that setProgramInfo scheduled.  useTextures gets the gl of
\* the new programInfo and reconciles if it is another one; the uniforms
\* prop is the same object, so the diff effect does not run.  handleResize
\* and renderLoop are new closures: the cleanup of the frame loop runs
\* (cancelAnimationFrame, renderFnRef.current = null), then the initial
\* resize, then the frame loop starts again.  A null that replaces a null
\* is no change of state: no effect runs.
CommitProgramInfo ==
  /\ mounted
  /\ pendingProgramInfo.scheduled
  /\ programInfo' = pendingProgramInfo.info
  /\ pendingProgramInfo' = NoPending
  /\ gl' = pendingProgramInfo.info.present
  /\ LET r == UseTexturesRender(gl, gl', textureUniformsKey_, textureUniforms, uniforms,
                                HookState(texturesRef, textureUnitsRef, <<>>),
                                loaded, maxUnits, FALSE)
         effectsRun == programInfo.present \/ programInfo'.present
         resize == handleResize(TRUE, programInfo', clientSize, pixelRatio, canvasSize)
     IN /\ textureUniformsKey_' = r.key
        /\ textureUniforms' = r.memo
        /\ texturesRef' = r.st.textures
        /\ textureUnitsRef' = r.st.units
        /\ glCalls' = r.st.log \o (IF resize.resized THEN <<ViewportCall>> ELSE <<>>)
        /\ canvasSize' = resize.size
        /\ viewport' = IF resize.resized THEN resize.size ELSE viewport
        /\ rafScheduled' = IF effectsRun
                            THEN requestAnimationFrame(cancelAnimationFrame(rafScheduled))
                            ELSE rafScheduled
        /\ renderFnRef' = IF effectsRun THEN TRUE ELSE renderFnRef
        /\ loopStartedAt' = IF effectsRun THEN now ELSE loopStartedAt
  /\ lastOp' = IF programInfo.present /\ programInfo'.present THEN "rebuild" ELSE "commit"
  /\ glContext' = GlAfter(glContext, glCalls')
  /\ UNCHANGED <<mounted, uniforms, loaded, maxUnits, uniformsRef, previousUniformsRef,
                 changedUniformsRef, gpuUniforms, diffVars, clientSize, pixelRatio,
                 fragmentShader, defaultTextureOptions, heapVars, telemetryVars,
                 now, timeUniform, lastFrameTimeRef, frameTimeEmitted>>

\* whether the program of the rendered programInfo is the one in use
ProgramInUse == ~pendingProgramInfo.scheduled

\* the GPU-side uniforms after a frame computed `gpu`.  The locations of a
\* replaced program do not address the new one (INVALID_OPERATION); those
\* of a deleted program that is still in use, after a rebuild that failed,
\* may or may not be honoured by the implementation.
GpuOutcomes(gpu) ==
  IF ProgramInUse THEN {gpu}
  ELSE IF pendingProgramInfo.info.present THEN {gpuUniforms}
  ELSE {gpuUniforms, gpu}

\* one animation frame: render(time) calls renderLoop(time) and then
\* requests the next frame; an exception of renderLoop leaves render before
\* the request
Tick ==
  /\ rafScheduled > 0
  /\ lastOp' = "tick"
  /\ LET r == renderLoop(mounted, programInfo, ProgramInUse, texturesRef, textureUnitsRef,
                         uniformsRef, changedUniformsRef, gpuUniforms,
                         now, now, lastFrameTimeRef)
     IN /\ glCalls' = r.calls
        /\ gpuUniforms' \in GpuOutcomes(r.gpu)
        /\ changedUniformsRef' = r.changed
        /\ rafScheduled' = IF r.threw THEN rafScheduled - 1
                            ELSE requestAnimationFrame(rafScheduled - 1)
        /\ timeUniform' = TimeUniformAfter(r.calls, timeUniform)
        /\ lastFrameTimeRef' = r.lastFrameTime
        /\ frameTimeEmitted' = FrameTimeAfter(r.calls, frameTimeEmitted)
  /\ glContext' = GlAfter(glContext, glCalls')
  /\ UNCHANGED <<mounted, uniforms, gl, textureUniformsKey_, textureUniforms, texturesRef,
                 textureUnitsRef, loaded, maxUnits, uniformsRef, previousUniformsRef,
                 programInfo, pendingProgramInfo, diffVars, renderFnRef, canvasSize,
                 viewport, clientSize, pixelRatio, fragmentShader, defaultTextureOptions,
                 heapVars, telemetryVars, now, loopStartedAt>>

\* handleResize() called by the resize observer or by the effect of a new
\* pixelRatio, for the client size and pixel ratio given: the resize, then
\* the frame it forces through renderFnRef.current
HandleResize(client, ratio) ==
  LET resize == handleResize(mounted, programInfo, client, ratio, canvasSize)
      forced == resize.resized /\ renderFnRef
      r == renderLoop(mounted, programInfo, ProgramInUse, texturesRef, textureUnitsRef,
                      uniformsRef, changedUniformsRef, gpuUniforms,
                      now, now, lastFrameTimeRef)
  IN /\ canvasSize' = resize.size
     /\ viewport' = IF resize.resized THEN resize.size ELSE viewport
     /\ glCalls' = (IF resize.resized THEN <<ViewportCall>> ELSE <<>>)
                     \o (IF forced THEN r.calls ELSE <<>>)
     /\ gpuUniforms' \in (IF forced THEN GpuOutcomes(r.gpu) ELSE {gpuUniforms})
     /\ changedUniformsRef' = IF forced THEN r.changed ELSE changedUniformsRef
     /\ timeUniform' = IF forced THEN TimeUniformAfter(r.calls, timeUniform) ELSE timeUniform
     /\ lastFrameTimeRef' = IF forced THEN r.lastFrameTime ELSE lastFrameTimeRef
     /\ frameTimeEmitted' =
          IF forced THEN FrameTimeAfter(r.calls, frameTimeEmitted) ELSE frameTimeEmitted

\* the resize observer notifies (the element got another client size, or
\* the observation started) and calls the latest handleResize; the
\* observer is disconnected at unmount, a notification already queued
\* still arrives
Resize(client) ==
  /\ clientSize' = client
  /\ HandleResize(client, pixelRatio)
  /\ lastOp' = "resize"
  /\ glContext' = GlAfter(glContext, glCalls')
  /\ UNCHANGED <<mounted, uniforms, gl, textureUniformsKey_, textureUniforms, texturesRef,
                 textureUnitsRef, loaded, maxUnits, uniformsRef, previousUniformsRef,
                 programInfo, pendingProgramInfo, diffVars, rafScheduled, renderFnRef,
                 pixelRatio, fragmentShader, defaultTextureOptions,
                 heapVars, telemetryVars, now, loopStartedAt>>

\* the parent renders with another pixelRatio and the same uniforms:
\* handleResize is a new closure, so the effect of the initial resize runs
\* again if there is a programInfo; renderLoop is the same closure and the
\* frame loop goes on
ChangePixelRatio(ratio) ==
  /\ mounted
  /\ ratio # pixelRatio
  /\ pixelRatio' = ratio
  /\ IF programInfo.present
     THEN HandleResize(clientSize, ratio)
     ELSE /\ glCalls' = <<>>
          /\ UNCHANGED <<canvasSize, viewport, gpuUniforms, changedUniformsRef,
                         timeUniform, lastFrameTimeRef, frameTimeEmitted>>
  /\ lastOp' = "pixelRatio"
  /\ glContext' = GlAfter(glContext, glCalls')
  /\ UNCHANGED <<mounted, uniforms, gl, textureUniformsKey_, textureUniforms, texturesRef,
                 textureUnitsRef, loaded, maxUnits, uniformsRef, previousUniformsRef,
                 programInfo, pendingProgramInfo, diffVars, rafScheduled, renderFnRef,
                 clientSize, fragmentShader, defaultTextureOptions,
                 heapVars, telemetryVars, now, loopStartedAt>>

\* the parent renders with another fragment shader and the same uniforms:
\* the cleanup of useWebGL deletes the program, its effect builds the new
\* one from the keys of uniformsRef.current and calls setProgramInfo, or
\* logs the failure and calls setProgramInfo(null).  The uniforms of a
\* program just linked are zero.
ChangeShader(shader) ==
  /\ mounted
  /\ shader # fragmentShader
  /\ fragmentShader' = shader
  /\ IF Compiles(shader)
     THEN /\ pendingProgramInfo' =
               [scheduled |-> TRUE,
                info |-> ProgramInfo(getUniformLocations(Keys(uniformsRef)))]
          /\ gpuUniforms' = [n \in DOMAIN gpuUniforms |-> <<0>>]
          /\ glCalls' = <<>>
     ELSE /\ pendingProgramInfo' =
               IF programInfo.present \/ pendingProgramInfo.scheduled
               THEN [scheduled |-> TRUE, info |-> NullProgramInfo]
               ELSE NoPending
          /\ gpuUniforms' = gpuUniforms
          /\ glCalls' = <<Call("console.error", "WebGL initialization error",
                               NoTexture, 0, NoSource, 0)>>
  /\ lastOp' = "shader"
  /\ glContext' = GlAfter(glContext, glCalls')
  /\ UNCHANGED <<mounted, uniforms, gl, textureUniformsKey_, textureUniforms, texturesRef,
                 textureUnitsRef, loaded, maxUnits, uniformsRef, previousUniformsRef,
                 changedUniformsRef, programInfo, diffVars, rafScheduled, renderFnRef,
                 canvasSize, viewport, clientSize, pixelRatio, defaultTextureOptions,
                 heapVars, telemetryVars, clockVars>>

\* the unmount without the cancelAnimationFrame of the frame loop's cleanup
Unmount_NoCancel ==
  /\ mounted
  /\ mounted' = FALSE
  /\ LET st == Teardown(gl, HookState(texturesRef, textureUnitsRef, <<>>))
     IN /\ texturesRef' = st.textures
        /\ textureUnitsRef' = st.units
        /\ glCalls' = st.log
  /\ renderFnRef' = FALSE
  /\ pendingProgramInfo' = NoPending
  /\ lastOp' = "unmount"
  /\ glContext' = GlAfter(glContext, glCalls')
  /\ UNCHANGED <<uniforms, gl, textureUniformsKey_, textureUniforms, loaded, maxUnits,
                 uniformsRef, previousUniformsRef, changedUniformsRef, programInfo,
                 gpuUniforms, diffVars, rafScheduled, canvasSize, viewport, clientSize,
                 pixelRatio, fragmentShader, defaultTextureOptions,
                 heapVars, telemetryVars, clockVars>>

\* the component unmounts: every cleanup runs (useWebGL deletes its program,
\* useTextures its textures, the frame loop cancels its frame and clears
\* renderFnRef) and canvasRef.current becomes null; a state update still
\* queued is dropped
Unmount ==
  /\ mounted
  /\ mounted' = FALSE
  /\ LET st == Teardown(gl, HookState(texturesRef, textureUnitsRef, <<>>))
     IN /\ texturesRef' = st.textures
        /\ textureUnitsRef' = st.units
        /\ glCalls' = st.log
  /\ rafScheduled' = cancelAnimationFrame(rafScheduled)
  /\ renderFnRef' = FALSE
  /\ pendingProgramInfo' = NoPending
  /\ lastOp' = "unmount"
  /\ glContext' = GlAfter(glContext, glCalls')
  /\ UNCHANGED <<uniforms, gl, textureUniformsKey_, textureUniforms, loaded, maxUnits,
                 uniformsRef, previousUniformsRef, changedUniformsRef, programInfo,
                 gpuUniforms, diffVars, canvasSize, viewport, clientSize, pixelRatio,
                 fragmentShader, defaultTextureOptions, heapVars, telemetryVars,
                 clockVars>>

Next ==
  \/ \E u \in OneEditFrom(uniforms, CanvasEntries) : UpdateUniforms(u)
  \/ CommitProgramInfo
  \/ Tick
  \/ \E s \in {1, 3} : SourceLoaded(s)

Spec == CanvasInit /\ [][Next]_vars

(***************************************************************************)
(* SpecResize: the component with a canvas texture, resized by its         *)
(* observer and re-rendered with other pixel ratios.                       *)
(***************************************************************************)
\* options of a texture uniform that carries its own
OwnOptions == [EmptyOptions EXCEPT !.magFilter = NEAREST]

\* a float, and a canvas texture without or with options
ResizeEntries ==
  {Entry("u_a", NumericUniform("float", "num", <<x>>)) : x \in {0, 1}}
    \cup {Entry("u_t1", TextureUniform(4, o)) : o \in {NoOptions, OwnOptions}}

\* client sizes: that of a new canvas, and two that floor to one size at
\* half the pixels
ResizeClients == {DefaultCanvasSize, <<400, 300>>, <<401, 301>>}

\* pixel ratios 0, 1/2, 1 and 2
ResizeRatios == {<<0, 1>>, <<1, 2>>, <<1, 1>>, <<2, 1>>}

\* options.defaultTextureOptions: not given, or asking for REPEAT
ConfiguredDefaults == {NoOptions, [EmptyOptions EXCEPT !.wrapS = REPEAT]}

ResizeInit ==
  \E u \in SnapshotsOver(ResizeEntries), client \in ResizeClients,
     ratio \in ResizeRatios, defaults \in ConfiguredDefaults :
    CanvasMount(u, "a", client, ratio, defaults, 1)

ResizeNext ==
  \/ \E u \in OneEditFrom(uniforms, ResizeEntries) : UpdateUniforms(u)
  \/ CommitProgramInfo
  \/ Tick
  \/ \E client \in ResizeClients : Resize(client)
  \/ \E ratio \in ResizeRatios : ChangePixelRatio(ratio)

SpecResize == ResizeInit /\ [][ResizeNext]_vars

(***************************************************************************)
(* SpecLoop: the life of the frame loop.  The program may fail to build,   *)
(* the shader may change, the component may unmount, and the canvas that   *)
(* is the value of the texture uniform may be one that is not origin-clean.*)
(***************************************************************************)
\* a float, and a texture that is a canvas, origin-clean (4) or not (5)
LoopEntries ==
  {Entry("u_a", NumericUniform("float", "num", <<x>>)) : x \in {0, 1}}
    \cup {Entry("u_t1", TextureUniform(s, NoOptions)) : s \in {4, 5}}

LoopShaders == {"a", "b", "bad"}

LoopClients == {<<400, 300>>, <<401, 301>>}

LoopInit ==
  \E u \in SnapshotsOver(LoopEntries), shader \in {"a", "bad"} :
    CanvasMount(u, shader, <<400, 300>>, <<1, 1>>, NoOptions, 1)

LoopNext ==
  \/ \E u \in OneEditFrom(uniforms, LoopEntries) : UpdateUniforms(u)
  \/ CommitProgramInfo
  \/ Tick
  \/ \E shader \in LoopShaders : ChangeShader(shader)
  \/ \E client \in LoopClients : Resize(client)
  \/ Unmount

SpecLoop == LoopInit /\ [][LoopNext]_vars

(***************************************************************************)
(* SpecCreate: createTexture called with every combination of options.     *)
(***************************************************************************)
WrapValues == {Unset, REPEAT, CLAMP_TO_EDGE, MIRRORED_REPEAT}

FilterValues ==
  {Unset, NEAREST, LINEAR, NEAREST_MIPMAP_NEAREST, LINEAR_MIPMAP_NEAREST,
   NEAREST_MIPMAP_LINEAR, LINEAR_MIPMAP_LINEAR}

\* no options object, or one with each field unset or set
CreateOptions ==
  {NoOptions}
    \cup [present : {TRUE}, wrapS : WrapValues, wrapT : WrapValues,
          minFilter : FilterValues, magFilter : {Unset, NEAREST, LINEAR},
          flipY : {"unset", "true", "false"}]

\* the arguments: the texture uniform whose texture is to be created
CreateInit ==
  /\ DiffIdle
  /\ CanvasIdle
  /\ LoopIdle
  /\ HeapIdle
  /\ TelemetryIdle
  /\ ClockIdle
  /\ ContextIdle
  /\ mounted = FALSE
  /\ \E s \in {1, 4}, o \in CreateOptions :
       uniforms = <<Entry("u_t1", TextureUniform(s, o))>>
  /\ gl = TRUE
  /\ textureUniformsKey_ = <<>>
  /\ textureUniforms = NullTextureUniforms
  /\ texturesRef = <<>>
  /\ textureUnitsRef = {}
  /\ loaded = {1}
  /\ maxUnits = MaxUnits
  /\ lastOp = "args"
  /\ glCalls = <<>>

\* createTexture(gl, uniform.value, uniform.options, unit)
CallCreateTexture(unit) ==
  /\ lastOp = "args"
  /\ glCalls' = createTexture(1, uniforms[1].u.source, uniforms[1].u.options, unit)
  /\ texturesRef' = <<TextureInfo("u_t1", 1, uniforms[1].u.source, unit)>>
  /\ lastOp' = "createTexture"
  /\ glContext' = GlAfter(glContext, glCalls')
  /\ UNCHANGED <<mounted, uniforms, gl, textureUniformsKey_, textureUniforms,
                 textureUnitsRef, loaded, maxUnits, diffVars, canvasVars, loopVars,
                 heapVars, telemetryVars, clockVars>>

CreateNext == \E unit \in 0..(MaxUnits - 1) : CallCreateTexture(unit)

SpecCreate == CreateInit /\ [][CreateNext]_vars

(***************************************************************************)
(* SpecClone: cloneUniforms on objects.  A snapshot holds its number       *)
(* arrays, typed arrays and options objects by reference; the heap maps a  *)
(* reference to the object, and the owner of a snapshot may write to one   *)
(* of its objects in place after cloneUniforms has returned.               *)
(***************************************************************************)
NoRef == 0

ArrayCell(es) == [elems |-> es, options |-> NoOptions]

OptionsCell(o) == [elems |-> <<>>, options |-> o]

\* a uniform of a snapshot, with references in place of objects
UniformRef(n, t, r, x, vref, s, oref) ==
  [name |-> n, type |-> t, rep |-> r, num |-> x, valueRef |-> vref,
   source |-> s, optionsRef |-> oref]

\* the snapshot u laid out on the heap: one object per array and per
\* options object, allocated in the order of the entries
RECURSIVE AllocateFrom(_, _, _)
AllocateFrom(u, i, acc) ==
  IF i > Len(u) THEN acc
  ELSE LET e == u[i]
           isArray == e.u.rep \in {"arr", "f32"}
           h1 == IF isArray THEN Append(acc.heap, ArrayCell(e.u.elems)) ELSE acc.heap
           vref == IF isArray THEN Len(h1) ELSE NoRef
           hasOptions == e.u.type = "texture" /\ e.u.options.present
           h2 == IF hasOptions THEN Append(h1, OptionsCell(e.u.options)) ELSE h1
           oref == IF hasOptions THEN Len(h2) ELSE NoRef
           x == IF e.u.rep = "num" THEN e.u.elems[1] ELSE 0
       IN AllocateFrom(u, i + 1,
            [snap |-> Append(acc.snap,
                        UniformRef(e.name, e.u.type, e.u.rep, x, vref, e.u.source, oref)),
             heap |-> h2])

Allocate(u) == AllocateFrom(u, 1, [snap |-> <<>>, heap |-> <<>>])

\* the values a snapshot of references holds on heap h
Deref(snap, h) ==
  [i \in 1..Len(snap) |->
     LET e == snap[i]
     IN Entry(e.name,
          IF e.type = "texture"
          THEN TextureUniform(e.source,
                 IF e.optionsRef = NoRef THEN NoOptions ELSE h[e.optionsRef].options)
          ELSE NumericUniform(e.type, e.rep,
                 IF e.rep = "num" THEN <<e.num>> ELSE h[e.valueRef].elems))]

\* the references to arrays and options objects a snapshot holds
RefsOf(snap) ==
  ({snap[i].valueRef : i \in 1..Len(snap)}
     \cup {snap[i].optionsRef : i \in 1..Len(snap)}) \ {NoRef}

\* cloneUniformValue keeping uniform.value for an array, as it does for a
\* texture
cloneUniformValueAt_KeepReference(e, h) ==
  IF e.type = "texture"
  THEN IF e.optionsRef # NoRef
       THEN [u |-> [e EXCEPT !.optionsRef = Len(h) + 1],
             heap |-> Append(h, OptionsCell(h[e.optionsRef].options))]
       ELSE [u |-> e, heap |-> h]
  ELSE [u |-> e, heap |-> h]

\* cloneUniformValue: { ...uniform.options }, new Float32Array(value) and
\* [...value] are new objects; the texture source and a number are kept
cloneUniformValueAt(e, h) ==
  IF e.type = "texture"
  THEN IF e.optionsRef # NoRef
       THEN [u |-> [e EXCEPT !.optionsRef = Len(h) + 1],
             heap |-> Append(h, OptionsCell(h[e.optionsRef].options))]
       ELSE [u |-> e, heap |-> h]
  ELSE IF e.rep = "num" THEN [u |-> e, heap |-> h]
  ELSE [u |-> [e EXCEPT !.valueRef = Len(h) + 1],
        heap |-> Append(h, ArrayCell(h[e.valueRef].elems))]

\* cloneUniforms: for (const key in uniforms) cloned[key] = cloneUniformValue(...)
RECURSIVE cloneUniformsFrom(_, _, _)
cloneUniformsFrom(snap, i, acc) ==
  IF i > Len(snap) THEN acc
  ELSE LET r == cloneUniformValueAt(snap[i], acc.heap)
       IN cloneUniformsFrom(snap, i + 1,
            [snap |-> Append(acc.snap, r.u), heap |-> r.heap])

cloneUniformsAt(snap, h) == cloneUniformsFrom(snap, 1, [snap |-> <<>>, heap |-> h])

\* the caller's snapshots: a float, number arrays, typed arrays, and a
\* texture without options, with empty options, with a wrap mode
CloneValuesA ==
  {NumericUniform("float", "num", <<0>>)}
    \cup {NumericUniform("vec2", "arr", es) : es \in ElemSeqs(ArrayNums)}
    \cup {NumericUniform("vec2", "f32", es) : es \in ElemSeqs({0, MaxElem})}

CloneValuesT ==
  {TextureUniform(1, o) :
     o \in {NoOptions, EmptyOptions, [EmptyOptions EXCEPT !.wrapS = REPEAT]}}

CloneSnapshots ==
  {<<>>}
    \cup {<<Entry("u_a", a)>> : a \in CloneValuesA}
    \cup {<<Entry("u_t1", t)>> : t \in CloneValuesT}
    \cup {<<Entry("u_a", a), Entry("u_t1", t)>> : a \in CloneValuesA, t \in CloneValuesT}

CloneInit ==
  /\ TexIdle
  /\ CanvasIdle
  /\ LoopIdle
  /\ TelemetryIdle
  /\ ClockIdle
  /\ ContextIdle
  /\ argCurrent = <<>>
  /\ argPrevious = NullUniforms
  /\ retChanged = {}
  /\ diffPc = "args"
  /\ \E u \in CloneSnapshots :
       /\ heap = Allocate(u).heap
       /\ callerUniforms = Allocate(u).snap
  /\ retainedUniforms = NullUniforms
  /\ mutatedNames = {}

\* previousUniformsRef.current = cloneUniforms(uniforms)
RetainClone ==
  /\ diffPc = "args"
  /\ LET r == cloneUniformsAt(callerUniforms, heap)
     IN /\ retainedUniforms' = SomeUniforms(r.snap)
        /\ heap' = r.heap
  /\ diffPc' = "cloned"
  /\ UNCHANGED <<argCurrent, argPrevious, retChanged, callerUniforms, mutatedNames,
                 texVars, canvasVars, loopVars, telemetryVars, clockVars, contextVars>>

\* the caller writes uniforms[name].value[i] = v, a value other than the
\* one the element holds
WriteElement(i, k, v) ==
  /\ diffPc \in {"cloned", "mutated"}
  /\ i \in 1..Len(callerUniforms)
  /\ callerUniforms[i].name \notin mutatedNames
  /\ callerUniforms[i].valueRef # NoRef
  /\ LET ref == callerUniforms[i].valueRef
     IN /\ k \in 1..Len(heap[ref].elems)
        /\ v # heap[ref].elems[k]
        /\ callerUniforms[i].rep = "f32" => v # NaN
        /\ heap' = [heap EXCEPT ![ref].elems[k] = v]
  /\ mutatedNames' = mutatedNames \cup {callerUniforms[i].name}
  /\ diffPc' = "mutated"
  /\ UNCHANGED <<argCurrent, argPrevious, retChanged, callerUniforms,
                 retainedUniforms, texVars, canvasVars, loopVars, telemetryVars,
                 clockVars, contextVars>>

\* the caller writes uniforms[name].options.wrapS = v or .flipY = v
WriteOption(i, field, v) ==
  /\ diffPc \in {"cloned", "mutated"}
  /\ i \in 1..Len(callerUniforms)
  /\ callerUniforms[i].name \notin mutatedNames
  /\ callerUniforms[i].optionsRef # NoRef
  /\ LET ref == callerUniforms[i].optionsRef
     IN /\ v # heap[ref].options[field]
        /\ heap' = [heap EXCEPT ![ref].options[field] = v]
  /\ mutatedNames' = mutatedNames \cup {callerUniforms[i].name}
  /\ diffPc' = "mutated"
  /\ UNCHANGED <<argCurrent, argPrevious, retChanged, callerUniforms,
                 retainedUniforms, texVars, canvasVars, loopVars, telemetryVars,
                 clockVars, contextVars>>

\* getChangedUniforms(uniforms, previousUniformsRef.current) on the objects
\* as they are now
DiffAgainstRetained ==
  /\ diffPc \in {"cloned", "mutated"}
  /\ argCurrent' = Deref(callerUniforms, heap)
  /\ argPrevious' = SomeUniforms(Deref(retainedUniforms.snap, heap))
  /\ retChanged' = getChangedUniforms(argCurrent', argPrevious')
  /\ diffPc' = "diffed"
  /\ UNCHANGED <<heapVars, texVars, canvasVars, loopVars, telemetryVars, clockVars,
                 contextVars>>

CloneNext ==
  \/ RetainClone
  \/ \E i \in 1..2, k \in 1..MaxLen, v \in ArrayNums : WriteElement(i, k, v)
  \/ \E i \in 1..2, v \in {Unset, REPEAT, CLAMP_TO_EDGE} : WriteOption(i, "wrapS", v)
  \/ \E i \in 1..2, v \in {"unset", "true", "false"} : WriteOption(i, "flipY", v)
  \/ DiffAgainstRetained

SpecClone == CloneInit /\ [][CloneNext]_vars

(***************************************************************************)
(* SpecTelemetry: the useShaderTelemetry hook.  It is rendered once with   *)
(* a graphSamples prop, and onFrameRender is then called with frame times. *)
(***************************************************************************)
MaxSamples == 2

MaxFrames == 4

DefaultGraphSamples == 60

\* frame times in milliseconds
FrameTimes == {16, 33}

\* props?.graphSamples || 60: undefined and 0 are falsy
GraphSamplesOrDefault(g) ==
  IF g = UndefinedSamples \/ g = 0 THEN DefaultGraphSamples ELSE g

\* frameTimeHistory.current after onFrameRender(frameTime): push, then one
\* shift if the array is longer than graphSamplesRef.current
onFrameRender(history, frameTime, samples) ==
  LET pushed == Append(history, frameTime)
  IN IF Len(pushed) > samples THEN Tail(pushed) ELSE pushed

\* after the first render and its effects
TelemetryInit ==
  /\ DiffIdle
  /\ TexIdle
  /\ CanvasIdle
  /\ LoopIdle
  /\ HeapIdle
  /\ ClockIdle
  /\ ContextIdle
  /\ graphSamples \in {UndefinedSamples} \cup 0..MaxSamples
  /\ graphSamplesRef = GraphSamplesOrDefault(graphSamples)
  /\ frameTimeHistory = <<>>
  /\ frameCountRef = 0
  /\ frameTimesReceived = <<>>

\* result.current.onFrameRender(frameTime)
CallOnFrameRender(frameTime) ==
  /\ Len(frameTimesReceived) < MaxFrames
  /\ frameTimeHistory' = onFrameRender(frameTimeHistory, frameTime, graphSamplesRef)
  /\ frameCountRef' = frameCountRef + 1
  /\ frameTimesReceived' = Append(frameTimesReceived, frameTime)
  /\ UNCHANGED <<graphSamples, graphSamplesRef, diffVars, texVars, canvasVars,
                 loopVars, heapVars, clockVars, contextVars>>

TelemetryNext == \E frameTime \in FrameTimes : CallOnFrameRender(frameTime)

SpecTelemetry == TelemetryInit /\ [][TelemetryNext]_vars

(***************************************************************************)
(* SpecTime: the frame loop under a clock.  The component mounts when the  *)
(* page opens or one second later, and a second may pass between any two   *)
(* operations.                                                             *)
(***************************************************************************)
MaxSeconds == 3

\* a float
TimeEntries == {Entry("u_a", NumericUniform("float", "num", <<x>>)) : x \in {0, 1}}

TimeShaders == {"a", "b"}

TimeInit ==
  /\ \E u \in SnapshotsOver(TimeEntries), t \in {0, 1000} :
       CanvasMountAt(u, "a", <<400, 300>>, <<1, 1>>, NoOptions, 1, t)
  /\ ContextIdle

\* a second passes
Advance ==
  /\ now + 1000 <= MaxSeconds * 1000
  /\ now' = now + 1000
  /\ lastOp' = "advance"
  /\ glCalls' = <<>>
  /\ glContext' = GlAfter(glContext, glCalls')
  /\ UNCHANGED <<mounted, uniforms, gl, textureUniformsKey_, textureUniforms, texturesRef,
                 textureUnitsRef, loaded, maxUnits, diffVars, canvasVars, loopVars,
                 heapVars, telemetryVars, timeUniform, lastFrameTimeRef,
                 frameTimeEmitted, loopStartedAt>>

TimeNext ==
  \/ \E u \in OneEditFrom(uniforms, TimeEntries) : UpdateUniforms(u)
  \/ CommitProgramInfo
  \/ Tick
  \/ \E shader \in TimeShaders : ChangeShader(shader)
  \/ \E client \in LoopClients : Resize(client)
  \/ Advance

SpecTime == TimeInit /\ [][TimeNext]_vars

(***************************************************************************)
(* SpecSwap: the hook with sources that cannot be told apart by their URL: *)
(* two images of the same URL (1, 2), a video (3) and two canvases, which  *)
(* have no URL (4, 6).                                                     *)
(***************************************************************************)
SwapSources == {1, 2, 3, 4, 6}

SwapEntries ==
  {Entry("u_t1", TextureUniform(s, NoOptions)) : s \in SwapSources}
    \cup {Entry("u_t2", TextureUniform(4, NoOptions))}

SwapInit == TexInit

SwapNext ==
  \/ \E u \in SnapshotsOver(SwapEntries) : TexMount(TRUE, u, FALSE)
  \/ \E u \in OneEditFrom(uniforms, SwapEntries) : TexRender(TRUE, u, FALSE)
  \/ \E s \in SwapSources : SourceLoaded(s)
  \/ TexUnmount

SpecSwap == SwapInit /\ [][SwapNext]_vars

(***************************************************************************)
(* SpecSampler: the component with two texture uniforms on two units: an   *)
(* image that loads after the first frames and a canvas whose options the  *)
(* parent changes.                                                         *)
(***************************************************************************)
SamplerEntries ==
  {Entry("u_t1", TextureUniform(1, NoOptions))}
    \cup {Entry("u_t2", TextureUniform(4, o)) : o \in {NoOptions, OwnOptions}}

SamplerInit ==
  \E u \in SnapshotsOver(SamplerEntries) :
    CanvasMount(u, "a", <<400, 300>>, <<1, 1>>, NoOptions, 2)

SamplerNext ==
  \/ \E u \in OneEditFrom(uniforms, SamplerEntries) : UpdateUniforms(u)
  \/ CommitProgramInfo
  \/ Tick
  \/ SourceLoaded(1)

SpecSampler == SamplerInit /\ [][SamplerNext]_vars

(***************************************************************************)
(* SpecContext: the component with two canvas textures on two units, and   *)
(* the texture state of its WebGL context.  One texture may ask for        *)
(* mipmaps, the other for an upload that is not flipped.                   *)
(***************************************************************************)
MipmapOptions == [EmptyOptions EXCEPT !.minFilter = LINEAR_MIPMAP_LINEAR]

UnflippedOptions == [EmptyOptions EXCEPT !.flipY = "false"]

ContextEntries ==
  {Entry("u_t1", TextureUniform(4, o)) : o \in {NoOptions, MipmapOptions}}
    \cup {Entry("u_t2", TextureUniform(6, o)) : o \in {NoOptions, UnflippedOptions}}

ContextInit ==
  /\ \E u \in SnapshotsOver(ContextEntries) :
       CanvasMountAt(u, "a", <<400, 300>>, <<1, 1>>, NoOptions, 2, 0)
  /\ glContext = NewContext(2)

ContextNext ==
  \/ \E u \in OneEditFrom(uniforms, ContextEntries) : UpdateUniforms(u)
  \/ CommitProgramInfo
  \/ Tick

SpecContext == ContextInit /\ [][ContextNext]_vars

(***************************************************************************)
(* Claims about the diff engine (SpecDiff).                                *)
(***************************************************************************)
DiffReturned == diffPc \in {"diffed", "cloneDiffed"}

NamesOf(u) == {u[i].name : i \in 1..Len(u)}

\* C6: getChangedUniforms(A, null) returns exactly the names of A.
C6_DiffAgainstNullIsAllNames ==
  (diffPc = "diffed" /\ ~argPrevious.present)
    => retChanged = NamesOf(argCurrent)

C6_Witness ==
  /\ diffPc = "diffed"
  /\ ~argPrevious.present
  /\ Len(argCurrent) = 2
  /\ Cardinality(retChanged) = 2

HasNaN(u) == \E i \in 1..Len(u) : \E j \in 1..Len(u[i].u.elems) : u[i].u.elems[j] = NaN

\* C7 as stated: getChangedUniforms(A, cloneUniforms(A)) is empty for every
\* snapshot A.
C7_Original_CloneDiffEmpty ==
  diffPc = "cloneDiffed" => retChanged = {}

\* C7 amended: getChangedUniforms(A, cloneUniforms(A)) is empty for every
\* snapshot A none of whose numeric values holds a NaN.
C7_CloneDiffEmptyWithoutNaN ==
  (diffPc = "cloneDiffed" /\ ~HasNaN(argCurrent)) => retChanged = {}

C7_Witness ==
  /\ diffPc = "cloneDiffed"
  /\ ~HasNaN(argCurrent)
  /\ Len(argCurrent) = 2
  /\ \E i \in 1..2 : argCurrent[i].u.rep = "f32"
  /\ retChanged = {}

OptionFields == {"wrapS", "wrapT", "minFilter", "magFilter", "flipY"}

\* (texture) the source differs, or options are given on one side only, or
\* some field of the options differs
TextureDiffers(a, b) ==
  \/ a.source # b.source
  \/ a.options.present # b.options.present
  \/ \E f \in OptionFields : a.options[f] # b.options[f]

\* (numeric) the lengths differ or some pair of corresponding elements is
\* not strictly equal
SomeElementDiffers(a, b) ==
  \/ Len(a.elems) # Len(b.elems)
  \/ \E i \in 1..Len(a.elems) : ~JsStrictEq(a.elems[i], b.elems[i])

\* the value of a name differs in the words of the claim
ClaimedDiffers(a, b) ==
  \/ a.type # b.type
  \/ a.type # "texture" /\ SomeElementDiffers(a, b)
  \/ a.type = "texture" /\ TextureDiffers(a, b)

\* the same, and a numeric value also differs from one held another way
\* (number, number[], Float32Array)
AmendedDiffers(a, b) ==
  \/ ClaimedDiffers(a, b)
  \/ a.type # "texture" /\ a.rep # b.rep

\* the two snapshots have the same names and are apart in one element of
\* one numeric uniform only
SingleElementApart(cur, prev) ==
  /\ NamesOf(cur) = NamesOf(prev)
  /\ \E n \in NamesOf(cur) :
       LET a == Get(cur, n)
           b == Get(prev, n)
       IN /\ a.type = b.type /\ a.type # "texture" /\ a.rep = b.rep
          /\ Len(a.elems) = Len(b.elems)
          /\ Cardinality({i \in 1..Len(a.elems) : ~JsStrictEq(a.elems[i], b.elems[i])}) = 1
          /\ \A m \in NamesOf(cur) \ {n} : ~AmendedDiffers(Get(cur, m), Get(prev, m))

\* C8 as stated: with previous present, a name of current is reported iff
\* it is absent from previous, its kind differs, some element differs, or
\* the texture source or options differ.
C8_Original_ChangedIff ==
  (DiffReturned /\ argPrevious.present) =>
    \A n \in NamesOf(argCurrent) :
      n \in retChanged <=>
        \/ n \notin NamesOf(argPrevious.snap)
        \/ ClaimedDiffers(Get(argCurrent, n), Get(argPrevious.snap, n))

\* C8 amended: as stated, and a numeric value is also reported when the two
\* sides hold it differently (number, number[], Float32Array), elements
\* being compared with ===; snapshots one element apart give one name.
C8_ChangedIffWithRepresentation ==
  (DiffReturned /\ argPrevious.present) =>
    /\ \A n \in NamesOf(argCurrent) :
         n \in retChanged <=>
           \/ n \notin NamesOf(argPrevious.snap)
           \/ AmendedDiffers(Get(argCurrent, n), Get(argPrevious.snap, n))
    /\ SingleElementApart(argCurrent, argPrevious.snap) => Cardinality(retChanged) = 1

C8_Witness ==
  /\ diffPc = "diffed"
  /\ argPrevious.present
  /\ Len(argCurrent) = 2
  /\ SingleElementApart(argCurrent, argPrevious.snap)
  /\ Get(argCurrent, "u_a").rep = "arr"
  /\ retChanged = {"u_a"}

\* C9: a name of previous that current does not have is never reported;
\* the result is a subset of the names of current.
C9_RemovedNeverReported ==
  DiffReturned =>
    /\ retChanged \subseteq NamesOf(argCurrent)
    /\ \A n \in NamesOf(argPrevious.snap) \ NamesOf(argCurrent) : n \notin retChanged

C9_Witness ==
  /\ diffPc = "diffed"
  /\ argPrevious.present
  /\ "u_b" \in NamesOf(argPrevious.snap) \ NamesOf(argCurrent)
  /\ retChanged = {"u_a"}


(***************************************************************************)
(* Claims about the texture bindings of the hook (SpecTex).                *)
(***************************************************************************)
\* the names of the texture uniforms of a Uniforms object
TextureNames(u) == {u[i].name : i \in {j \in 1..Len(u) : u[j].u.type = "texture"}}

BoundNames(textures) == {textures[i].name : i \in 1..Len(textures)}

HeldUnits(textures) == {textures[i].unit : i \in 1..Len(textures)}

\* C2: in every reachable state no two live texture bindings hold the same
\* unit, and every held unit lies in [0, maxUnits); the textureUnits map
\* says the same as the bindings.
C2_UnitsDistinctAndInRange ==
  /\ \A i, j \in 1..Len(texturesRef) :
       i # j => texturesRef[i].unit # texturesRef[j].unit
  /\ \A i \in 1..Len(texturesRef) :
       texturesRef[i].unit >= 0 /\ texturesRef[i].unit < maxUnits
  /\ textureUnitsRef =
       {[name |-> texturesRef[i].name, unit |-> texturesRef[i].unit] :
          i \in 1..Len(texturesRef)}

\* every unit is held, and the re-render that led here tried one creation
\* more, which failed
C2_Witness ==
  /\ lastOp = "render"
  /\ HeldUnits(texturesRef) = 0..(maxUnits - 1)
  /\ maxUnits > 1
  /\ \E i \in 1..Len(glCalls) : glCalls[i].fn = "console.error"

\* C3 as stated: after a snapshot update and its reconciliation, whatever the
\* snapshot (one without any texture uniform included), no live binding and
\* no held unit remains for a name that is absent from the snapshot's
\* texture uniforms.
C3_AbsentBindingsDestroyed ==
  (mounted /\ gl /\ lastOp = "render") =>
    /\ BoundNames(texturesRef) \subseteq TextureNames(uniforms)
    /\ {e.name : e \in textureUnitsRef} \subseteq TextureNames(uniforms)

AllReady(u) == \A i \in 1..Len(u) : isTextureSourceReady(u[i].u.source, loaded)

NoErrorLogged(calls) == \A i \in 1..Len(calls) : calls[i].fn # "console.error"

\* mounted on an empty pool with N <= maxUnits ready sources, the i-th
\* texture uniform of the snapshot holds unit i - 1
MountAssignsInOrder ==
  (lastOp = "mount" /\ gl /\ AllReady(uniforms) /\ Len(uniforms) <= maxUnits
     /\ NoErrorLogged(glCalls)) =>
    /\ Len(texturesRef) = Len(uniforms)
    /\ \A i \in 1..Len(uniforms) :
         /\ texturesRef[i].name = uniforms[i].name
         /\ texturesRef[i].unit = i - 1

\* a re-render that creates bindings gives each of them the smallest unit
\* that the bindings kept and the bindings created before it do not hold:
\* with the units 0..N-1 held, the holder of k removed and a uniform added,
\* that is k
CreationTakesSmallestFree ==
  (lastOp' = "render" /\ gl /\ gl') =>
    \A i \in 1..Len(texturesRef') :
      texturesRef'[i].name \notin BoundNames(texturesRef) =>
        LET before == {texturesRef'[j].unit : j \in 1..(i - 1)}
        IN /\ texturesRef'[i].unit \notin before
           /\ \A k \in 0..(texturesRef'[i].unit - 1) : k \in before

\* C4: N texture uniforms with ready sources created from an empty pool get
\* the units 0..N-1 in the order of their first appearance, every creation
\* takes the smallest free unit, and a uniform added after the holder of
\* unit k was removed gets k.
C4_SmallestFreeUnitInOrder ==
  [][MountAssignsInOrder' /\ CreationTakesSmallestFree]_vars

\* units 0 and 1 were given out in order, the holder of 0 was removed and
\* the uniform added afterwards holds 0
C4_Witness ==
  /\ lastOp = "render"
  /\ Len(texturesRef) = 2
  /\ texturesRef[1].unit = 1
  /\ texturesRef[2].unit = 0
  /\ texturesRef[2].name = "u_t3"
  /\ NoErrorLogged(glCalls)

\* a call of a reconciliation made for the name m: its warning, its error or
\* the upload of its binding
CallIsFor(call, m, textures) ==
  \/ call.fn \in {"console.warn", "console.error"} /\ call.name = m
  \/ /\ call.fn = "texImage2D"
     /\ HasTexture(textures, m)
     /\ call.tex = GetTexture(textures, m).texture

\* the texture uniforms of a snapshot, in order
TextureEntries(u) == SelectSeq(u, LAMBDA e : e.u.type = "texture")

\* a reconciliation ran in the last operation: it warns, uploads or logs an
\* error for every texture uniform
Reconciled(calls) ==
  \E i \in 1..Len(calls) : calls[i].fn \in {"console.warn", "console.error", "texImage2D"}

\* the calls made for the GPU texture of a binding
CallsOn(calls, texture) == {i \in 1..Len(calls) : calls[i].tex = texture}

\* what a reconciliation does with the texture uniforms whose source is not
\* ready, and with those whose source is
NotReadyIsSkipped ==
  (lastOp' \in {"mount", "render"} /\ Reconciled(glCalls')) =>
    LET entries == TextureEntries(uniforms')
        before == IF lastOp' = "mount" \/ gl' # gl THEN <<>> ELSE texturesRef
    IN \A k \in 1..Len(entries) :
         LET n == entries[k].name
         IN IF SourceKind(entries[k].u.source) \in {"image", "video"}
               /\ entries[k].u.source \notin loaded
            THEN \* no binding, no unit, no upload, no error for the name
                 /\ ~HasTexture(before, n) =>
                      /\ ~HasTexture(texturesRef', n)
                      /\ GetUnit(textureUnitsRef', n) = NoUnit
                 /\ HasTexture(before, n) =>
                      /\ HasTexture(texturesRef', n)
                      /\ GetTexture(texturesRef', n) = GetTexture(before, n)
                      /\ CallsOn(glCalls', GetTexture(before, n).texture) = {}
                 /\ \A i \in 1..Len(glCalls') :
                      glCalls'[i].name = n => glCalls'[i].fn = "console.warn"
                 \* and the names after it are processed
                 /\ \A m \in (k + 1)..Len(entries) :
                      \E j \in 1..Len(glCalls') :
                        CallIsFor(glCalls'[j], entries[m].name, texturesRef')
            ELSE \* a ready source gets its binding, unless the creation
                 \* itself failed and was logged
                 \/ /\ HasTexture(texturesRef', n)
                    /\ GetTexture(texturesRef', n).source = entries[k].u.source
                    /\ GetUnit(textureUnitsRef', n) = GetTexture(texturesRef', n).unit
                 \/ \E i \in 1..Len(glCalls') :
                      glCalls'[i].fn = "console.error" /\ glCalls'[i].name = n

\* C17: a texture uniform whose source is not ready at a reconciliation gets
\* no binding, no unit and no upload there, no error is raised, the other
\* names are still processed; at a reconciliation at which the source is
\* ready the binding is created (unless that creation fails for want of a
\* unit or of a GPU texture, which is logged).
C17_NotReadySourceIsSkipped == [][NotReadyIsSkipped]_vars

\* a reconciliation skipped a name and went on to upload a later one
C17_Witness ==
  /\ lastOp = "render"
  /\ \E i \in 1..Len(glCalls) :
       /\ glCalls[i].fn = "console.warn"
       /\ ~HasTexture(texturesRef, glCalls[i].name)
       /\ \E j \in (i + 1)..Len(glCalls) : glCalls[j].fn = "texImage2D"

\* the teardown of the bindings, at unmount or when the gl goes away
TeardownDeletesOnce ==
  (lastOp' = "unmount" \/ (lastOp' = "render" /\ gl /\ ~gl')) =>
    /\ texturesRef' = <<>>
    /\ textureUnitsRef' = {}
    /\ gl =>
         /\ Len(glCalls') = Len(texturesRef)
         /\ \A i \in 1..Len(texturesRef) :
              Cardinality({j \in 1..Len(glCalls') :
                             /\ glCalls'[j].fn = "deleteTexture"
                             /\ glCalls'[j].tex = texturesRef[i].texture}) = 1
    /\ ~gl => glCalls' = <<>>
    \* a second teardown finds nothing to delete and leaves the maps empty
    /\ Teardown(TRUE, HookState(texturesRef', textureUnitsRef', <<>>))
         = HookState(<<>>, {}, <<>>)

\* C18: teardown deletes the GPU texture of every live binding exactly once
\* and leaves the binding map and the unit map empty; a teardown of the
\* empty state deletes nothing and leaves it empty.
C18_TeardownIsIdempotent == [][TeardownDeletesOnce]_vars

\* an unmount that deleted two textures
C18_Witness ==
  /\ lastOp = "unmount"
  /\ Len(glCalls) = 2
  /\ glCalls[1].fn = "deleteTexture"
  /\ glCalls[2].fn = "deleteTexture"
  /\ glCalls[1].tex # glCalls[2].tex
  /\ texturesRef = <<>>
  /\ textureUnitsRef = {}

(***************************************************************************)
(* Claims about the component (Spec).                                      *)
(***************************************************************************)
\* the value the GPU should hold for a uniform of the snapshot: the elements
\* of a numeric uniform, the unit of the binding of a texture uniform
SnapshotValue(name) ==
  LET u == Get(uniformsRef, name)
  IN IF u.type = "texture" THEN <<GetUnit(textureUnitsRef, name)>> ELSE u.elems

\* C1 as stated: after a tick that runs with a ready program, whatever
\* snapshot updates came before it (one or several between two ticks, before
\* or after the program was ready), the GPU-side value of every uniform of
\* the current snapshot that has a location equals its value in the snapshot
\* (for a texture uniform that has a binding: the unit of the binding).
C1_TickSynchronizesSnapshot ==
  (lastOp = "tick" /\ programInfo.present) =>
    \A n \in Keys(uniformsRef) \cap programInfo.uniformLocations :
      (Get(uniformsRef, n).type = "texture" => GetUnit(textureUnitsRef, n) # NoUnit)
        => gpuUniforms[n] = SnapshotValue(n)

UnitsDistinct(textures) ==
  \A i, j \in 1..Len(textures) : i # j => textures[i].unit # textures[j].unit

\* the positions in the calls of a reconciliation where the creation of a
\* texture failed for want of a unit
ExhaustedAt(calls, units) ==
  {i \in 1..Len(calls) : calls[i].fn = "console.error" /\ calls[i].val = units}

\* a reconciliation (after a snapshot update or the arrival of the program)
\* in which creations met a full pool
ExhaustionIsContained ==
  (lastOp' \in {"update", "commit"} /\ gl') =>
    LET entries == TextureEntries(uniforms')
        failedAt == ExhaustedAt(glCalls', maxUnits)
    IN /\ UnitsDistinct(texturesRef')
       /\ HeldUnits(texturesRef') \subseteq 0..(maxUnits - 1)
       \* a ready source left without a binding by a reconciliation: all
       \* units are held and the failure was logged
       /\ glCalls' # <<>> =>
            \A k \in 1..Len(entries) :
              (isTextureSourceReady(entries[k].u.source, loaded)
                 /\ ~HasTexture(texturesRef', entries[k].name)) =>
                /\ HeldUnits(texturesRef') = 0..(maxUnits - 1)
                /\ \E i \in failedAt : glCalls'[i].name = entries[k].name
       /\ \A i \in failedAt :
            LET n == glCalls'[i].name
                at == CHOOSE k \in 1..Len(entries) : entries[k].name = n
            IN \* no binding is added for the name
               /\ ~HasTexture(texturesRef', n)
               /\ GetUnit(textureUnitsRef', n) = NoUnit
               \* the bindings of the other names keep texture and unit, and
               \* their source unless their own update replaced it
               /\ \A b \in 1..Len(texturesRef) :
                    texturesRef[b].name \in TextureNames(uniforms') =>
                      /\ HasTexture(texturesRef', texturesRef[b].name)
                      /\ LET after == GetTexture(texturesRef', texturesRef[b].name)
                         IN /\ after.texture = texturesRef[b].texture
                            /\ after.unit = texturesRef[b].unit
                            /\ after.source \in
                                 {texturesRef[b].source,
                                  Get(uniforms', texturesRef[b].name).source}
               \* the names after it are still processed
               /\ \A k \in (at + 1)..Len(entries) :
                    \E j \in (i + 1)..Len(glCalls') :
                      CallIsFor(glCalls'[j], entries[k].name, texturesRef')

\* a tick with a program issues the draw call, then emits the frame time
TickDraws ==
  (lastOp = "tick" /\ programInfo.present) =>
    /\ Len(glCalls) >= 2
    /\ glCalls[Len(glCalls) - 1].fn = "drawArrays"
    /\ glCalls[Len(glCalls)].fn = "onFrameRender"

\* C5: a creation attempted while every unit is held fails with an error
\* that is caught and logged; no binding is added for the name, no unit is
\* handed out twice or outside [0, maxUnits), the existing bindings keep
\* texture, source and unit, the remaining names of the reconciliation are
\* processed, and the ticks that follow still draw.
C5_ExhaustionIsContained ==
  [][ExhaustionIsContained /\ TickDraws']_vars

\* a snapshot update whose reconciliation failed to create a texture with
\* every unit held and went on to upload the binding of a later name
C5_Witness ==
  /\ lastOp = "update"
  /\ Len(texturesRef) = maxUnits
  /\ \E i \in ExhaustedAt(glCalls, maxUnits) :
       /\ ~HasTexture(texturesRef, glCalls[i].name)
       /\ \E j \in (i + 1)..Len(glCalls) : glCalls[j].fn = "texImage2D"

\* the changed names a tick applies: those with a location
NamesToApply ==
  (changedUniformsRef \cap programInfo.uniformLocations) \cap Keys(uniformsRef)

\* the names among them whose application fails: a texture uniform without
\* a binding has no unit to be set to
FailingNames ==
  {n \in NamesToApply :
     /\ Get(uniformsRef, n).type = "texture"
     /\ ~HasTexture(texturesRef, n)}

CallsNamed(calls, fn, name) ==
  {i \in 1..Len(calls) : calls[i].fn = fn /\ calls[i].name = name}

\* a tick with a program in which the application of some names fails
FailureIsPerUniform ==
  (lastOp' = "tick" /\ programInfo.present) =>
    \* each failure is logged once, for its name, and no other error is
    /\ \A n \in FailingNames :
         /\ Cardinality(CallsNamed(glCalls', "console.error", n)) = 1
         /\ gpuUniforms'[n] = gpuUniforms[n]
    /\ \A i \in 1..Len(glCalls') :
         glCalls'[i].fn = "console.error" => glCalls'[i].name \in FailingNames
    \* every other name is applied: a float to its value, a texture to the
    \* unit of its binding
    /\ \A n \in NamesToApply \ FailingNames :
         LET u == Get(uniformsRef, n)
         IN IF u.type = "texture"
            THEN /\ gpuUniforms'[n] = <<GetTexture(texturesRef, n).unit>>
                 /\ Cardinality(CallsNamed(glCalls', "uniform1i", n)) = 1
            ELSE /\ gpuUniforms'[n] = u.elems
                 /\ Cardinality(CallsNamed(glCalls', "uniform1f", n)) = 1
    \* the frame is drawn, once, after the uniforms
    /\ Cardinality(CallsNamed(glCalls', "drawArrays", "")) = 1
    /\ \A d \in CallsNamed(glCalls', "drawArrays", "") :
         \A i \in 1..Len(glCalls') :
           glCalls'[i].name \in NamesToApply => i < d
    /\ changedUniformsRef' = {}

\* C14: when the application of a changed uniform fails in a tick, the
\* failure is caught and logged for that uniform alone; every other changed
\* uniform that has a location is applied in that tick, and the tick issues
\* its draw call.
C14_UniformFailureIsContained ==
  [][FailureIsPerUniform]_vars

\* a tick in which a texture uniform without a binding failed, and the
\* float that comes after it in the snapshot got its new value
C14_Witness ==
  /\ lastOp = "tick"
  /\ programInfo.present
  /\ \E i \in 1..Len(glCalls) :
       /\ glCalls[i].fn = "console.error"
       /\ \E j \in (i + 1)..Len(glCalls) :
            /\ glCalls[j].fn = "uniform1f"
            /\ glCalls[j].name = "u_a"
  /\ Has(uniformsRef, "u_a")
  /\ gpuUniforms["u_a"] = <<1>>

\* the uploads a tick made into a texture
Uploads(calls, texture) ==
  Cardinality({k \in 1..Len(calls) : calls[k].fn = "texImage2D" /\ calls[k].tex = texture})

\* C10: in every tick that runs with a program, the binding of a texture
\* uniform whose source in the current snapshot is a video or a canvas is
\* uploaded exactly once, and the binding of one whose source is an image
\* is not uploaded: a static source is uploaded by reconciliations only.
C10_DynamicSourcesUploadedOncePerTick ==
  (lastOp = "tick" /\ programInfo.present) =>
    \A i \in 1..Len(texturesRef) :
      LET name == texturesRef[i].name
      IN (Has(uniformsRef, name) /\ Get(uniformsRef, name).type = "texture") =>
           Uploads(glCalls, texturesRef[i].texture) =
             IF SourceKind(Get(uniformsRef, name).source) \in {"video", "canvas"}
             THEN 1 ELSE 0

\* a tick without a change queued, with a canvas and an image bound
C10_Witness ==
  /\ lastOp = "tick"
  /\ programInfo.present
  /\ Len(texturesRef) = 2
  /\ \E i, j \in 1..2 :
       /\ Has(uniformsRef, texturesRef[i].name)
       /\ Has(uniformsRef, texturesRef[j].name)
       /\ SourceKind(Get(uniformsRef, texturesRef[i].name).source) = "canvas"
       /\ SourceKind(Get(uniformsRef, texturesRef[j].name).source) = "image"
       /\ Uploads(glCalls, texturesRef[i].texture) = 1
       /\ Uploads(glCalls, texturesRef[j].texture) = 0

(***************************************************************************)
(* Claims about resizing and texture options (SpecResize).                 *)
(***************************************************************************)
CallsOf(calls, fn) == {i \in 1..Len(calls) : calls[i].fn = fn}

\* a step in which handleResize ran with a program: a notification of the
\* observer, the effect of a new pixel ratio, or the initial resize of the
\* render that brought the programInfo
HandlesResize(ops) ==
  /\ lastOp' \in ops
  /\ mounted'
  /\ programInfo'.present

\* such a step whose target differs from the backing store: the backing
\* store and the viewport get the target, with one viewport call, and one
\* frame is drawn in the step
ResizeIsApplied(ops) ==
  (HandlesResize(ops) /\ DisplaySize(clientSize', pixelRatio') # canvasSize) =>
    /\ canvasSize' = DisplaySize(clientSize', pixelRatio')
    /\ viewport' = canvasSize'
    /\ Cardinality(CallsOf(glCalls', "viewport")) = 1
    /\ Cardinality(CallsOf(glCalls', "drawArrays")) = 1
    /\ \A v \in CallsOf(glCalls', "viewport") :
         \A d \in CallsOf(glCalls', "drawArrays") : v < d

\* C12 as stated: every resize handled with a ready program, the initial
\* one included, whose target floor(clientSize * pixelRatio) differs from
\* the backing store sets the backing store to the target, makes exactly
\* one viewport call and runs exactly one forced tick with one draw call
\* before the handler returns, for any pixel ratio >= 0.
C12_ResizeForcesOneFrame ==
  [][ResizeIsApplied({"resize", "pixelRatio", "commit", "rebuild"})]_vars

\* such a step whose target is the backing store
ResizeIsNoOp ==
  (HandlesResize({"resize", "pixelRatio", "commit", "rebuild"})
     /\ DisplaySize(clientSize', pixelRatio') = canvasSize) =>
    /\ canvasSize' = canvasSize
    /\ viewport' = viewport
    /\ changedUniformsRef' = changedUniformsRef
    /\ gpuUniforms' = gpuUniforms
    /\ \A i \in 1..Len(glCalls') :
         glCalls'[i].fn \notin {"viewport", "clearColor", "clear", "drawArrays",
                                "onFrameRender", "uniform1f", "uniform2f", "uniform1i"}
    /\ lastOp' \in {"resize", "pixelRatio"} => glCalls' = <<>>

\* C13: a resize whose target floor(clientSize * pixelRatio) equals the
\* size of the backing store changes nothing: no viewport call, no forced
\* tick, no draw call, the backing store and the changed set as they were.
C13_EqualTargetIsNoOp ==
  [][ResizeIsNoOp]_vars

\* a notification for a client size that floors to the size the backing
\* store has, which is not the size of a new canvas, with changes queued
C13_Witness ==
  /\ lastOp = "resize"
  /\ programInfo.present
  /\ glCalls = <<>>
  /\ pixelRatio = <<1, 2>>
  /\ clientSize = <<401, 301>>
  /\ canvasSize = <<200, 150>>
  /\ viewport = canvasSize
  /\ changedUniformsRef # {}

\* the options a texture uniform is to be created with
EffectiveOptions(uniform) ==
  IF uniform.options.present THEN uniform.options ELSE defaultTextureOptions

\* the values texParameteri is to be called with for them
ExpectedParameter(options, pname) ==
  CASE pname = "TEXTURE_WRAP_S" ->
         IF options.wrapS = Unset THEN CLAMP_TO_EDGE ELSE options.wrapS
    [] pname = "TEXTURE_WRAP_T" ->
         IF options.wrapT = Unset THEN CLAMP_TO_EDGE ELSE options.wrapT
    [] pname = "TEXTURE_MIN_FILTER" ->
         IF options.minFilter = Unset THEN LINEAR ELSE options.minFilter
    [] pname = "TEXTURE_MAG_FILTER" ->
         IF options.magFilter = Unset THEN LINEAR ELSE options.magFilter

\* C20 as stated: a texture created for a uniform without options gets the
\* configured defaultTextureOptions (unset fields: clamp-to-edge,
\* clamp-to-edge, linear, linear), one created for a uniform with options
\* gets its own.
C20_DefaultTextureOptionsApplied ==
  \A i \in 1..Len(texturesRef) :
    LET texture == texturesRef[i].texture
        name == texturesRef[i].name
    IN ((\E c \in CallsOf(glCalls, "createTexture") : glCalls[c].tex = texture)
          /\ Has(uniforms, name)) =>
         \A p \in CallsOf(glCalls, "texParameteri") :
           glCalls[p].tex = texture =>
             glCalls[p].val =
               ExpectedParameter(EffectiveOptions(Get(uniforms, name)), glCalls[p].name)

(***************************************************************************)
(* Claims about the life of the frame loop (SpecLoop).                     *)
(***************************************************************************)
\* the calls of a frame
FrameCalls ==
  {"clearColor", "clear", "uniform1f", "uniform2f", "uniform1i", "texImage2D",
   "drawArrays", "onFrameRender", "viewport"}

\* the unmount cancels the frame and issues no call of a frame; from then
\* on no step is a tick, and a resize notification that still arrives
\* makes no call and leaves the canvas, the changed set and the GPU alone
StoppedIsQuiet ==
  /\ lastOp' = "unmount" =>
       /\ rafScheduled' = 0
       /\ ~renderFnRef'
       /\ \A i \in 1..Len(glCalls') : glCalls'[i].fn \notin FrameCalls
  /\ ~mounted =>
       /\ lastOp' # "tick"
       /\ rafScheduled' = 0
       /\ glCalls' = <<>>
       /\ UNCHANGED <<canvasSize, viewport, gpuUniforms, changedUniformsRef>>

\* C11: once the component is torn down the pending frame is cancelled and
\* no tick runs any more: no clear, no uniform call, no draw call and no
\* frame-time emission, from the animation frame or from a resize
\* notification that arrives after the stop.
C11_NoFrameAfterStop ==
  [][StoppedIsQuiet]_vars

\* a resize notification arrived after the unmount of a component that had
\* a program and changes queued, for a size the backing store does not have
C11_Witness ==
  /\ ~mounted
  /\ lastOp = "resize"
  /\ programInfo.present
  /\ changedUniformsRef # {}
  /\ DisplaySize(clientSize, pixelRatio) # canvasSize

\* C15 as stated: while the component is mounted the frame loop keeps
\* running, whatever fails inside a tick: every tick ends by requesting the
\* next frame, until the explicit stop.
C15_LoopSurvivesDataErrors ==
  mounted => rafScheduled > 0

\* the one call of console.error that reports a failed initialization
InitErrors(calls) ==
  {i \in 1..Len(calls) :
     calls[i].fn = "console.error" /\ calls[i].name = "WebGL initialization error"}

\* C16 as stated: when the initialization has failed, the program info is
\* null, the failure was reported once, no frame is scheduled and no tick
\* issues a call, until an initialization succeeds.
C16_FailedInitStartsNoLoop ==
  (mounted /\ ~Compiles(fragmentShader) /\ ~pendingProgramInfo.scheduled) =>
    /\ ~programInfo.present
    /\ lastOp \in {"mount", "shader"} => Cardinality(InitErrors(glCalls)) = 1
    /\ lastOp = "tick" => glCalls = <<>>
    /\ rafScheduled = 0

\* C19 as stated: when the render of a rebuilt program is committed, the
\* baseline is absent, so every name of the snapshot is in the changed set
\* for the first tick of the new program.
C19_RebuildMarksAllChanged ==
  lastOp = "rebuild" => changedUniformsRef = Keys(uniformsRef)

(***************************************************************************)
(* Claims about the steps of a frame (SpecLoop).                           *)
(***************************************************************************)
\* the step of a frame a call belongs to: 1 clear, 2 built-in uniforms,
\* 3 refresh of the dynamic textures, 4 changed uniforms, 5 draw, 6 frame
\* time; 0 for the viewport call of the resize that forced the frame
FrameStep(call) ==
  CASE call.fn = "viewport" -> 0
    [] call.fn \in {"clearColor", "clear"} -> 1
    [] call.fn \in {"uniform1f", "uniform2f"} /\ IsBuiltInCall(call) -> 2
    [] call.fn \in {"activeTexture", "bindTexture", "texParameteri", "pixelStorei",
                    "texImage2D", "generateMipmap"} -> 3
    [] call.fn = "drawArrays" -> 5
    [] call.fn = "onFrameRender" -> 6
    [] OTHER -> 4

\* a step of the component in which a frame ran with a program: a tick, or
\* the frame a resize forced
FrameRan ==
  /\ lastOp' \in {"tick", "resize", "pixelRatio"}
  /\ programInfo.present
  /\ ProgramInUse
  /\ lastOp' # "tick" => CallsOf(glCalls', "clear") # {}

\* the bindings a frame refreshes
DynamicBindings ==
  {i \in 1..Len(texturesRef) :
     /\ Has(uniformsRef, texturesRef[i].name)
     /\ Get(uniformsRef, texturesRef[i].name).type = "texture"
     /\ SourceKind(Get(uniformsRef, texturesRef[i].name).source) \in {"video", "canvas"}}

FrameInOrder ==
  FrameRan =>
    \* the steps follow one another
    /\ \A i, j \in 1..Len(glCalls') :
         i < j => FrameStep(glCalls'[i]) <= FrameStep(glCalls'[j])
    \* and each happens once
    /\ Cardinality(CallsOf(glCalls', "clearColor")) = 1
    /\ Cardinality(CallsOf(glCalls', "clear")) = 1
    /\ \A b \in {"u_resolution", "u_time"} :
         Cardinality({i \in 1..Len(glCalls') : glCalls'[i].name = b}) = 1
    /\ \A b \in DynamicBindings :
         Cardinality({i \in CallsOf(glCalls', "texImage2D") :
                        glCalls'[i].tex = texturesRef[b].texture}) = 1
    /\ Cardinality(CallsOf(glCalls', "texImage2D")) = Cardinality(DynamicBindings)
    /\ \A n \in NamesToApply :
         Cardinality({i \in 1..Len(glCalls') :
                        FrameStep(glCalls'[i]) = 4 /\ glCalls'[i].name = n}) = 1
    /\ Cardinality({i \in 1..Len(glCalls') : FrameStep(glCalls'[i]) = 4})
         = Cardinality(NamesToApply)
    /\ changedUniformsRef' = {}
    /\ Cardinality(CallsOf(glCalls', "drawArrays")) = 1
    /\ Cardinality(CallsOf(glCalls', "onFrameRender")) = 1

\* C23 as stated: in every frame that runs with a program the steps happen
\* once each and in this order: clear, built-in uniforms, refresh of the dynamic
\* texture sources, changed uniforms, emptying of the changed set, the draw
\* call, the emission of the frame time; no frame draws before the changed
\* uniforms are applied.
C23_FrameStepsInOrder ==
  [][FrameInOrder]_vars

\* the changed set is empty after a frame, grows only by a snapshot update,
\* and a frame calls the setters of the names in it and of no other
QueuedOnce ==
  /\ FrameRan =>
       /\ changedUniformsRef' = {}
       /\ \A i \in 1..Len(glCalls') :
            FrameStep(glCalls'[i]) = 4 => glCalls'[i].name \in changedUniformsRef
  /\ lastOp' # "update" => changedUniformsRef' \subseteq changedUniformsRef

\* C24 as stated: after a frame that ran with a program the changed set is
\* empty, and the frames that follow without a snapshot update call no
\* setter of a custom uniform: a queued change is pushed at most once.
C24_QueuedChangePushedOnce ==
  [][QueuedOnce]_vars

\* the names a frame finds no location for: the built-in uniforms the
\* program does not declare, and the changed names that are not in the
\* locations of the programInfo
BuiltInsWithoutLocation == {"u_resolution", "u_time", "u_mouse"} \ ShaderUniforms

ChangedWithoutLocation == changedUniformsRef \ programInfo.uniformLocations

MissingLocationIsSkipped ==
  (FrameRan /\ BuiltInsWithoutLocation \cup ChangedWithoutLocation # {}) =>
    \* no setter, no error and no warning for such a name
    /\ \A i \in 1..Len(glCalls') :
         glCalls'[i].name \notin BuiltInsWithoutLocation \cup ChangedWithoutLocation
    /\ \A n \in ChangedWithoutLocation : gpuUniforms'[n] = gpuUniforms[n]
    \* the other changed names are applied or, without a unit, logged
    /\ \A n \in NamesToApply :
         Cardinality({i \in 1..Len(glCalls') :
                        FrameStep(glCalls'[i]) = 4 /\ glCalls'[i].name = n}) = 1
    /\ \A n \in NamesToApply \ FailingNames :
         gpuUniforms'[n] = SnapshotValue(n)
    \* and the frame is drawn
    /\ Cardinality(CallsOf(glCalls', "drawArrays")) = 1

\* C25 as stated: a uniform name, custom or built-in, for which the frame
\* finds no location is skipped without an error raised or logged: no
\* setter is called for it, the other uniforms are applied and the draw
\* call is issued.
C25_MissingLocationIsSkipped ==
  [][MissingLocationIsSkipped]_vars

(***************************************************************************)
(* More claims about the hook (SpecTex).                                   *)
(***************************************************************************)
\* the bindings of a state that a step did not destroy: the name is still
\* bound and the texture was not deleted
Surviving ==
  {i \in 1..Len(texturesRef) :
     /\ HasTexture(texturesRef', texturesRef[i].name)
     /\ \A d \in CallsOf(glCalls', "deleteTexture") :
          glCalls'[d].tex # texturesRef[i].texture}

\* a surviving binding keeps its unit and its texture, and no texture is
\* created on its unit or in its place
BindingIsStable ==
  \A i \in Surviving :
    LET before == texturesRef[i]
        after == GetTexture(texturesRef', before.name)
    IN /\ after.unit = before.unit
       /\ after.texture = before.texture
       /\ GetUnit(textureUnitsRef', before.name) = before.unit
       /\ \A c \in CallsOf(glCalls', "createTexture") :
            /\ glCalls'[c].tex # before.texture
            /\ glCalls'[c].unit # before.unit

SnapshotDelivered ==
  /\ lastOp' = "render"
  /\ mounted'
  /\ gl /\ gl'

\* after it every texture uniform of the snapshot whose source is ready has
\* a binding, or the failure to create it was logged
ReadyIsBound ==
  SnapshotDelivered =>
    \A k \in 1..Len(TextureEntries(uniforms')) :
      LET e == TextureEntries(uniforms')[k]
      IN isTextureSourceReady(e.u.source, loaded) =>
           \/ HasTexture(texturesRef', e.name)
           \/ \E i \in CallsOf(glCalls', "console.error") : glCalls'[i].name = e.name

\* C27 as stated: the reconciliation runs for every snapshot delivered while
\* there is a gl, whatever changed in it, so a texture uniform skipped as
\* not ready is created at the first later snapshot at which its source is
\* ready, even with the same name, source and options.
C27_ReconcileOnEverySnapshot ==
  [][ReadyIsBound]_vars

(***************************************************************************)
(* Claims about createTexture (SpecCreate).                                *)
(***************************************************************************)
\* the calls of a log that set the parameter `pname`
ParameterCalls(calls, pname) ==
  {i \in 1..Len(calls) : calls[i].fn = "texParameteri" /\ calls[i].name = pname}

\* C30: createTexture sets the four sampling parameters and flipY from the
\* options, an unset field being clamp-to-edge, clamp-to-edge, linear,
\* linear and flip on; it uploads the source once, and it generates mipmaps
\* exactly when the resolved minFilter is one of the four mipmap filters.
C30_CreateTextureParameters ==
  lastOp = "createTexture" =>
    LET options == uniforms[1].u.options
        minFilter == ExpectedParameter(options, "TEXTURE_MIN_FILTER")
        uploads == CallsOf(glCalls, "texImage2D")
        flips == CallsOf(glCalls, "pixelStorei")
        mipmaps == CallsOf(glCalls, "generateMipmap")
    IN /\ \A pname \in {"TEXTURE_WRAP_S", "TEXTURE_WRAP_T",
                        "TEXTURE_MIN_FILTER", "TEXTURE_MAG_FILTER"} :
            /\ Cardinality(ParameterCalls(glCalls, pname)) = 1
            /\ \A i \in ParameterCalls(glCalls, pname) :
                 /\ glCalls[i].val = ExpectedParameter(options, pname)
                 /\ \A k \in uploads : i < k
       /\ Cardinality(flips) = 1
       /\ \A i \in flips :
            /\ glCalls[i].val = (IF options.flipY = "false" THEN 0 ELSE 1)
            /\ \A k \in uploads : i < k
       /\ Cardinality(uploads) = 1
       /\ \A k \in uploads : glCalls[k].src = uniforms[1].u.source
       /\ Cardinality(mipmaps) =
            (IF minFilter \in {NEAREST_MIPMAP_NEAREST, LINEAR_MIPMAP_NEAREST,
                               NEAREST_MIPMAP_LINEAR, LINEAR_MIPMAP_LINEAR}
             THEN 1 ELSE 0)
       /\ \A m \in mipmaps : \A k \in uploads : k < m

\* a texture created with some fields set and the others left to their
\* defaults, with a mipmap filter for minification
C30_Witness ==
  /\ lastOp = "createTexture"
  /\ uniforms[1].u.options.present
  /\ uniforms[1].u.options.wrapS = MIRRORED_REPEAT
  /\ uniforms[1].u.options.wrapT = Unset
  /\ uniforms[1].u.options.minFilter = LINEAR_MIPMAP_NEAREST
  /\ uniforms[1].u.options.magFilter = Unset
  /\ uniforms[1].u.options.flipY = "false"
  /\ CallsOf(glCalls, "generateMipmap") # {}
(***************************************************************************)
(* Claims about cloneUniforms on objects (SpecClone).                      *)
(***************************************************************************)
\* the retained snapshot and the caller's have no array and no options
\* object in common, and a texture of both has the same source
SharesNothingButSources ==
  /\ RefsOf(callerUniforms) \cap RefsOf(retainedUniforms.snap) = {}
  /\ \A i \in 1..Len(callerUniforms) :
       callerUniforms[i].type = "texture" =>
         retainedUniforms.snap[i].source = callerUniforms[i].source

\* a step that clones leaves the caller's snapshot and its objects as they
\* were, and the clone holds the values cloneUniforms gives
CloneLeavesCallerAlone ==
  (diffPc = "args" /\ diffPc' = "cloned") =>
    /\ callerUniforms' = callerUniforms
    /\ \A r \in 1..Len(heap) : heap'[r] = heap[r]
    /\ Deref(retainedUniforms'.snap, heap') = cloneUniforms(Deref(callerUniforms, heap))
    /\ SharesNothingButSources'

\* a write of the caller to one of its objects leaves the values of the
\* retained snapshot as they were
WriteLeavesRetainedAlone ==
  (diffPc \in {"cloned", "mutated"} /\ diffPc' = "mutated") =>
    /\ Deref(retainedUniforms'.snap, heap') = Deref(retainedUniforms.snap, heap)
    /\ Deref(callerUniforms', heap') # Deref(callerUniforms, heap)
    /\ SharesNothingButSources'

\* the diff that follows reports every name the caller wrote to
DiffReportsWrites ==
  diffPc' = "diffed" => mutatedNames' \subseteq retChanged'

\* C29: cloneUniforms leaves the caller's snapshot unchanged and shares no
\* numeric array and no options object with it (the texture source is the
\* same reference); once the clone is retained, a write of the caller into
\* one of its arrays or options objects does not change the retained
\* values, and the next diff of the caller's snapshot against the retained
\* one reports the name written to.
C29_CloneSharesNoMutableObject ==
  [][CloneLeavesCallerAlone /\ WriteLeavesRetainedAlone /\ DiffReportsWrites]_vars

\* both an array element and an option were written to after the clone, and
\* the diff reported both names
C29_Witness ==
  /\ diffPc = "diffed"
  /\ mutatedNames = {"u_a", "u_t1"}
  /\ retChanged = {"u_a", "u_t1"}
  /\ retainedUniforms.present

(***************************************************************************)
(* Claims about the telemetry hook (SpecTelemetry).                        *)
(***************************************************************************)
\* the last n elements of s, all of s when it has fewer
LastN(s, n) ==
  IF Len(s) <= n THEN s ELSE SubSeq(s, Len(s) - n + 1, Len(s))

\* the history is what the statement asks for a cap of n samples
HistoryIsLast(n) ==
  /\ Len(frameTimeHistory) <= n
  /\ frameTimeHistory = LastN(frameTimesReceived, n)
  /\ frameCountRef = Len(frameTimesReceived)

\* C22: with the graphSamples prop fixed at n, after any sequence of
\* onFrameRender calls the history holds at most n samples, the n most
\* recent frame times in arrival order, and the counter is the number of
\* calls.
C22_HistoryIsLastSamples ==
  graphSamples # UndefinedSamples => HistoryIsLast(graphSamples)

(***************************************************************************)
(* Claims about time (SpecTime).                                           *)
(***************************************************************************)
\* the last operation was a frame, scheduled or forced by a resize, that
\* set the time uniform
FramePushedTime ==
  /\ lastOp \in {"tick", "resize"}
  /\ \E i \in 1..Len(glCalls) : glCalls[i].name = "u_time"

\* C21: the value a frame (scheduled or forced by a resize) pushes to the
\* time uniform is the time in seconds elapsed since the program started,
\* that is, since the frame loop started with it: 0 at the start, and from
\* 0 again after a rebuild.
C21_TimeIsSinceProgramStart ==
  FramePushedTime => timeUniform = Seconds(now - loopStartedAt)

\* a step that is a frame run with a programInfo
FrameWithProgram ==
  /\ lastOp' = "tick"
  /\ mounted
  /\ programInfo.present

\* the frame emits now - lastFrameTimeRef.current once and stores now
FrameEmitsFrameTime ==
  /\ Cardinality({i \in 1..Len(glCalls') : glCalls'[i].fn = "onFrameRender"}) = 1
  /\ frameTimeEmitted' = now - lastFrameTimeRef
  /\ frameTimeEmitted' >= 0
  /\ lastFrameTimeRef' = now

\* a step that starts the frame loop again with a programInfo
LoopRestarts ==
  /\ lastOp' \in {"commit", "rebuild"}
  /\ programInfo'.present

\* C28: every frame run with a programInfo emits frameTime = now -
\* lastFrameTimestamp (not negative) exactly once and sets
\* lastFrameTimestamp to now; lastFrameTimestamp is set again to the time
\* of the start whenever the frame loop starts again, so the first frame
\* time after a start is measured from that start.
C28_FrameTimeMeasuredFromRestart ==
  [][/\ FrameWithProgram => FrameEmitsFrameTime
     /\ LoopRestarts => lastFrameTimeRef' = now']_vars

(***************************************************************************)
(* The two maps of the hook (SpecTex).                                     *)
(***************************************************************************)
\* the keys of the textureUnits map
UnitNames(units) == {e.name : e \in units}

\* C37: in every reachable state the two maps useTextures returns agree: a
\* name is a key of `textures` if and only if it is a key of
\* `textureUnits`, each name has one entry, and textureUnits[name] is
\* textures[name].unit; this after any sequence of reconciliations, failed
\* creations and teardowns.
C37_MapsAgree ==
  /\ UnitNames(textureUnitsRef) = BoundNames(texturesRef)
  /\ Cardinality(textureUnitsRef) = Len(texturesRef)
  /\ \A e \in textureUnitsRef : GetTexture(texturesRef, e.name).unit = e.unit

\* a reconciliation that removed a binding, kept another and failed to
\* create a third
C37_Witness ==
  /\ lastOp = "render"
  /\ Len(texturesRef) >= 1
  /\ CallsOf(glCalls, "deleteTexture") # {}
  /\ CallsOf(glCalls, "console.error") # {}
  /\ CallsOf(glCalls, "texImage2D") # {}

(***************************************************************************)
(* The frames between two programs (SpecLoop).                             *)
(***************************************************************************)
\* the calls of a frame that go to the program: the setters of uniforms and
\* the draw call
ProgramCalls == {"uniform1f", "uniform2f", "uniform1i", "drawArrays"}

\* a step that is a frame, scheduled or forced by a resize, run by the
\* closure of a programInfo whose program useWebGL has deleted already
FrameOnDeletedProgram ==
  /\ lastOp' \in {"tick", "resize"}
  /\ mounted
  /\ programInfo.present
  /\ ~ProgramInUse

\* C39 as stated: no frame, scheduled or forced by a resize, issues a
\* uniform or draw call for a program that was deleted: between the
\* deletion of the old program (the shader changed, or the initialization
\* failed after a success) and the render of the new programInfo, a frame
\* makes no such call.
C39_NoFrameOnDeletedProgram ==
  [][FrameOnDeletedProgram =>
       \A i \in 1..Len(glCalls') : glCalls'[i].fn \notin ProgramCalls]_vars

(***************************************************************************)
(* Names that join the snapshot after the program was created (SpecTime).  *)
(***************************************************************************)
\* the changed names of the snapshot that the compiled program declares and
\* that can be set: a texture uniform needs a binding
ChangedInProgram ==
  {n \in (changedUniformsRef \cap Keys(uniformsRef)) \cap ShaderUniforms :
     Get(uniformsRef, n).type = "texture" => HasTexture(texturesRef, n)}

\* C32 as stated: at a tick, every changed name that the compiled program
\* declares is applied, whether the name was in the snapshot when the
\* program was created or first appeared in a later snapshot; only the
\* names the program does not declare are skipped.
C32_LateNameIsApplied ==
  [][(lastOp' = "tick" /\ mounted /\ programInfo.present /\ ProgramInUse) =>
       \A n \in ChangedInProgram :
         /\ \E i \in 1..Len(glCalls') :
              glCalls'[i].name = n /\ glCalls'[i].fn \in ProgramCalls
         /\ gpuUniforms'[n] = SnapshotValue(n)]_vars

(***************************************************************************)
(* A texture uniform that gets another source (SpecSwap).                  *)
(***************************************************************************)
\* the names whose binding exists and whose uniform gets, in this
\* re-render, a source object other than the one it had, which is ready
SourceReplaced ==
  {n \in BoundNames(texturesRef) :
     /\ Has(uniforms, n) /\ Has(uniforms', n)
     /\ Get(uniforms', n).type = "texture"
     /\ Get(uniforms', n).source # Get(uniforms, n).source
     /\ isTextureSourceReady(Get(uniforms', n).source, loaded)}

\* C33 as stated: when a snapshot update gives an existing texture uniform
\* another source object that is ready, of whatever kind and whether or not
\* the two sources have the same URL (or none), the reconciliation of that
\* update uploads the new source into the texture of the binding and the
\* binding records the new source.
C33_ReplacedSourceIsUploaded ==
  [][(lastOp' = "render" /\ gl /\ gl') =>
       \A n \in SourceReplaced :
         /\ HasTexture(texturesRef', n)
         /\ GetTexture(texturesRef', n).source = Get(uniforms', n).source
         /\ GetTexture(texturesRef', n).texture = GetTexture(texturesRef, n).texture
         /\ \E i \in CallsOf(glCalls', "texImage2D") :
              /\ glCalls'[i].tex = GetTexture(texturesRef, n).texture
              /\ glCalls'[i].src = Get(uniforms', n).source]_vars


(***************************************************************************)
(* The sampler uniforms and the units of their bindings (SpecSampler).     *)
(***************************************************************************)
\* a frame of the program in use that reached its draw call
FrameDrew ==
  /\ lastOp' = "tick"
  /\ ProgramInUse
  /\ CallsOf(glCalls', "drawArrays") # {}

\* the live bindings whose name has a location in the program
LocatedBindings ==
  {i \in 1..Len(texturesRef') : texturesRef'[i].name \in programInfo.uniformLocations}

\* C34 as stated: at every draw call, the sampler uniform of every live
\* binding whose name has a location holds the unit of the binding, also
\* for a binding created after a tick consumed the changed entry of its
\* name and for a unit other than 0.
C34_SamplerHoldsUnit ==
  [][FrameDrew =>
       \A i \in LocatedBindings :
         gpuUniforms'[texturesRef'[i].name] = <<texturesRef'[i].unit>>]_vars


(***************************************************************************)
(* The pending animation frames of one canvas (SpecLoop).                  *)
(***************************************************************************)
\* the loop is Running from its start at the mount to its stop at the
\* unmount; the states of the model are the states between ticks
LoopRunning == mounted

AtMostOnePending == rafScheduled <= 1

TextureCalls == {"texParameteri", "texImage2D", "generateMipmap"}

\* call i of the operation is made with the unit of its texture active and
\* its texture bound, by an activeTexture and a bindTexture of the same
\* operation
BoundBefore(i) ==
  LET ctx == GlAfter(glContext, SubSeq(glCalls', 1, i - 1))
  IN /\ ctx.active = glCalls'[i].unit
     /\ BoundTexture(ctx) = glCalls'[i].tex
     /\ \E j \in 1..(i - 1), k \in 1..(i - 1) :
          /\ j < k
          /\ glCalls'[j].fn = "activeTexture" /\ glCalls'[j].unit = glCalls'[i].unit
          /\ glCalls'[k].fn = "bindTexture" /\ glCalls'[k].tex = glCalls'[i].tex
     /\ \A b \in 1..Len(texturesRef') :
          texturesRef'[b].texture = glCalls'[i].tex => texturesRef'[b].unit = glCalls'[i].unit

\* the texture of every live binding is the one bound to its unit
BindingsAreBound(textures, ctx) ==
  \A b \in 1..Len(textures) : ctx.bound[textures[b].unit] = textures[b].texture

\* C35: every parameter or upload call of a creation, an update or a
\* per-frame refresh is preceded, within the same operation, by the
\* activation of the unit of its binding and the bind of its texture, and
\* at every draw call the texture bound to the unit of every live binding
\* is the texture of that binding.
C35_UnitBoundBeforeUse ==
  [][/\ \A i \in 1..Len(glCalls') : glCalls'[i].fn \in TextureCalls => BoundBefore(i)
     /\ CallsOf(glCalls', "drawArrays") # {} => BindingsAreBound(texturesRef', glContext')]_vars

\* a frame drew with two live bindings, the one on unit 1 older than the
\* one on unit 0: a removal and a creation came between, and the frame
\* refreshed both
C35_Witness ==
  /\ lastOp = "tick"
  /\ CallsOf(glCalls, "drawArrays") # {}
  /\ Cardinality(CallsOf(glCalls, "texImage2D")) = 2
  /\ Len(texturesRef) = 2
  /\ texturesRef[1].unit = 1
  /\ texturesRef[2].unit = 0


(***************************************************************************)
(* The flip of the rows at each upload (SpecContext).                      *)
(***************************************************************************)
\* the flipY of a uniform of the snapshot: its own, or flip-on
OwnFlipY(name) ==
  LET flipY == Get(uniforms', name).options.flipY
  IN IF flipY = "unset" THEN 1 ELSE GLboolean(flipY)

\* UNPACK_FLIP_Y_WEBGL of the context when call i of the operation is made
FlipAt(i) == GlAfter(glContext, SubSeq(glCalls', 1, i - 1)).unpackFlipY

\* C36 as stated: every upload of the pixels of a texture, at its
\* creation, at an update of the reconciliation and at the refresh of a
\* frame, is made with the flipY of its own uniform, flip-on when the
\* uniform does not set it, whatever the upload of another texture used
\* before it.
C36_UploadUsesOwnFlipY ==
  [][\A i \in CallsOf(glCalls', "texImage2D"), b \in 1..Len(texturesRef') :
       (texturesRef'[b].texture = glCalls'[i].tex /\ Has(uniforms', texturesRef'[b].name))
         => FlipAt(i) = OwnFlipY(texturesRef'[b].name)]_vars


(***************************************************************************)
(* The update of an existing texture (SpecContext).                        *)
(***************************************************************************)
\* the fields of the options that are parameters of the texture
ParameterFields == {"wrapS", "wrapT", "minFilter", "magFilter"}

\* the bindings of the step that keep their texture and had it uploaded
\* again: by an update of the reconciliation or by the refresh of a frame
UpdatedBindings ==
  {b \in 1..Len(texturesRef') :
     /\ \E a \in 1..Len(texturesRef) : texturesRef[a] = texturesRef'[b]
     /\ texturesRef'[b].texture \in DOMAIN glContext.objects
     /\ Has(uniforms', texturesRef'[b].name)
     /\ \E i \in CallsOf(glCalls', "texImage2D") : glCalls'[i].tex = texturesRef'[b].texture}

\* the update of binding b uploaded its source, overwrote the parameters
\* its options give and no other, and left the texture with mipmaps of the
\* upload if and only if its minFilter then uses mipmaps
UpdateApplied(b) ==
  LET texture == texturesRef'[b].texture
      uniform == Get(uniforms', texturesRef'[b].name)
      before == glContext.objects[texture]
      after == glContext'.objects[texture]
  IN /\ after.image = uniform.source
     /\ \A f \in ParameterFields :
          after[f] = IF uniform.options[f] # Unset THEN uniform.options[f] ELSE before[f]
     /\ after.mipmapped <=> after.minFilter \in MipmapFilters

\* C31 as stated: updating an existing texture re-uploads the source,
\* overwrites exactly the parameters whose option fields are present and
\* leaves the others at their previous value, and generates mipmaps if and
\* only if the minFilter in effect after the update, newly given or
\* previously set, is one of the four mipmap filters.
C31_UpdateOverwritesGivenParameters ==
  [][\A b \in UpdatedBindings : UpdateApplied(b)]_vars

====
